---- MODULE Spec2Model ----
(***************************************************************************)
(* A model of cloudcost's price resolution: the AWS pricing Client         *)
(* (internal/pricing/aws/client.go), its lazy Initialize and the tiered    *)
(* GetPrice protocol (exact query with retries, result scan, relaxed       *)
(* query, t3.micro anomaly correction).                                    *)
(*                                                                         *)
(* GetPrice is modelled statement block by statement block: every caller   *)
(* has a program counter, the locals of its call and a log of the network  *)
(* operations the call has issued.  The catalog is the environment: each   *)
(* network operation answers nondeterministically.                         *)
(*                                                                         *)
(* A catalog entry (one PriceList item) is modelled by the set of USD      *)
(* amounts that the code's navigation terms -> OnDemand -> priceDimensions *)
(* -> pricePerUnit -> USD can parse in it; the empty set is an entry that  *)
(* yields no price (broken JSON, missing terms, unparseable amount).  Go   *)
(* iterates maps in an unspecified order, so within one entry any of its   *)
(* amounts may be the first one met.  Entries are well-formed at the level *)
(* of one on-demand term (a JSON object, as the provider's price list      *)
(* publishes it): the unchecked type assertion on a term in the tier-1 and *)
(* tier-2 scans is therefore not reached with a value that is no object.   *)
(*                                                                         *)
(* Amounts are fixed-point numbers in a unit small enough that the sample  *)
(* amounts are even: the code's "* 0.5" is then the exact integer half.    *)
(*                                                                         *)
(* The aggregation is modelled on top of it: Calculator.CalculateCosts     *)
(* (internal/calculator/calculator.go) loops over the parsed resources,    *)
(* executes GetPrice for those with a registered pricing client and adds   *)
(* the priced ones to the Report; the Report's own methods AddResource,    *)
(* AddWarning and Summarize (pkg/model/report.go) are driven by a holder   *)
(* of the Report.  Specifications: Spec (GetPrice calls in sequence),      *)
(* SpecConc (two unsynchronised callers), SpecCalc (one CalculateCosts     *)
(* run), SpecReport (the Report's methods).                                *)
(*                                                                         *)
(* The attribute inference is modelled from internal/parser/analyzer.go    *)
(* and the Terraform parser that calls it: the attributes of a resource    *)
(* block are a map from names to values, the strings package is modelled   *)
(* character by character, and every loop over a Go map takes any order.   *)
(* SpecInfer calls FindSizeField, FindRegionField, FindQuantity and Parse  *)
(* on one block; SpecDerive assigns hourly prices to a Resource and calls  *)
(* CalculateDerivedPrices.                                                 *)
(*                                                                         *)
(* Further specifications: SpecAnswered (one caller, every catalog call    *)
(* answered, weakly fair), SpecSilent (the same with a catalog that may    *)
(* leave a call unanswered), SpecShape (FindRegionField on blocks with     *)
(* region-shaped strings), SpecTally (AddResource and Summarize only on a  *)
(* new Report) and SpecHeld (CalculateCosts followed by one AddResource    *)
(* call on the returned Report, whose ByTag map is nil).                   *)
(***************************************************************************)
EXTENDS Integers, Sequences, FiniteSets, TLC

\* ------------------------------------------------------------------ bounds

\* Most entries of a catalog answer that are chosen freely.
MaxEntries == 2

\* Most resources of a run, and of a Report.
MaxResources == 2

\* Most warnings added to a Report.
MaxWarnings == 1

\* The hourly total up to which resources are added to a Report.
MaxHourly == 8

\* The attributes of a resource block.
MaxAttrs == 2

\* The calls of FindSizeField on one block that are compared.
MaxRuns == 2

\* The hourly prices assigned to a resource.
MaxRate == 9

\* ------------------------------------------------------- program constants

\* A slip: one attempt too many.
MaxAttemptsOffByOne == 3 + 1
MaxAttempts == 3
BackoffUnitMs == 500
\* A slip: the scan looks at one entry more.
ScanLimitOffByOne == 5 + 1
ScanLimit == 5
\* A slip: a month of 31 days.
HoursPerLongMonth == 31 * 24
HoursPerMonth == 730
HoursPerYear == 8760
\* A slip: the relaxed query needs more than three filters.
MandatoryFiltersOffByOne == 2 + 1
MandatoryFilters == 2

\* ------------------------------------------------------------------ inputs

SeqCallers == {1}
ConcCallers == {1, 2}
Callers == SeqCallers \cup ConcCallers

ResourceTypes == {"aws_instance", "aws_db_instance", "aws_elasticache_cluster", "azurerm_virtual_machine"}
Sizes == {"", "t3.micro", "m5.large"}
Regions == {"", "eu-west-1"}

Amounts == {0, 2, 4}
\* Entries without a price, with one amount, and with a zero and a positive
\* amount in two price dimensions.
Entries == {{}} \cup {{a} : a \in Amounts} \cup {{0, 2}}

RECURSIVE SeqsUpTo(_, _)
SeqsUpTo(S, n) ==
    IF n = 0 THEN {<<>>}
    ELSE LET shorter == SeqsUpTo(S, n - 1)
         IN  shorter \cup {Append(s, x) : s \in {t \in shorter : Len(t) = n - 1}, x \in S}

Pad(k) == [i \in 1..k |-> {}]

\* The answers the catalog may give to a product query: up to MaxEntries
\* arbitrary entries, alone or behind enough entries without a price to put
\* them at the scan limit or just past it.
PadChoices == {0, ScanLimit - 1, ScanLimit}
PriceLists == {Pad(k) \o body : k \in PadChoices, body \in SeqsUpTo(Entries, MaxEntries)}
\* The answers drawn when two calls run concurrently.
ShortPriceLists == SeqsUpTo({{}, {0}, {2}}, 1)

ConfigErrors == {"no credentials"}
ApiErrors == {"request timeout"}

\* ------------------------------------------------------------------- values

NilErr == "<nil>"
Nil == <<>>

Details(source) == <<[Currency |-> "USD", PricingSource |-> source]>>

NewClient == [initialized |-> FALSE, error |-> NilErr, pricingClient |-> FALSE]

\* A Go map with no key; reading a missing key gives the zero value.
EmptyMap == [k \in {} |-> 0]
Get(m, k) == IF k \in DOMAIN m THEN m[k] ELSE 0

\* m[k] += v
MapAdd(m, k, v) == [x \in DOMAIN m \cup {k} |-> IF x = k THEN Get(m, k) + v ELSE m[x]]

\* strings.Split(resourceType, "_")[0]
RECURSIVE HeadBefore(_, _, _)
HeadBefore(s, sep, i) ==
    IF i > Len(s) THEN s
    ELSE IF SubSeq(s, i, i) = sep THEN SubSeq(s, 1, i - 1)
    ELSE HeadBefore(s, sep, i + 1)

ProviderOf(resourceType) == HeadBefore(resourceType, "_", 1)

\* A resource as the parser creates it: model.NewResource() with the ID, type,
\* provider, size and region of the declaration.
NewResource(t, s, r) ==
    [ID |-> t \o ".main", ResourceType |-> t, Provider |-> ProviderOf(t),
     Size |-> s, Region |-> r, Quantity |-> 1, Tags |-> EmptyMap,
     HourlyPrice |-> 0, MonthlyPrice |-> 0, YearlyPrice |-> 0,
     PricingDetails |-> Nil]

HasPrefix(s, prefix) == Len(s) >= Len(prefix) /\ SubSeq(s, 1, Len(prefix)) = prefix

Filter(field, value) == [Field |-> field, Value |-> value]

buildEC2Filters(instanceType, region) ==
    <<Filter("ServiceCode", "AmazonEC2")>>
    \o (IF region # "" THEN <<Filter("regionCode", region)>> ELSE <<>>)
    \o (IF instanceType # "" THEN <<Filter("instanceType", instanceType)>> ELSE <<>>)
    \o <<Filter("operatingSystem", "Linux"), Filter("tenancy", "Shared")>>

buildRDSFilters(instanceType, region) ==
    <<Filter("ServiceCode", "AmazonRDS")>>
    \o (IF region # "" THEN <<Filter("regionCode", region)>> ELSE <<>>)
    \o (IF instanceType # "" THEN <<Filter("instanceType", instanceType)>> ELSE <<>>)
    \o <<Filter("databaseEngine", "MySQL")>>

buildElastiCacheFilters(instanceType, region) ==
    <<Filter("ServiceCode", "AmazonElastiCache")>>
    \o (IF region # "" THEN <<Filter("regionCode", region)>> ELSE <<>>)
    \o (IF instanceType # "" THEN <<Filter("cacheNodeType", instanceType)>> ELSE <<>>)

\* The region the query is built for: the resource's, or the default.
QueryRegion(res) == IF res.Region = "" THEN "us-east-1" ELSE res.Region

\* A slip: the default branch prices the resource as an EC2 instance.
AlwaysEC2(resourceType) == "AmazonEC2"

\* The switch on the resource type's prefix; "" is the default branch.
ServiceCodeOf(resourceType) ==
    IF HasPrefix(resourceType, "aws_instance") THEN "AmazonEC2"
    ELSE IF HasPrefix(resourceType, "aws_db_instance") THEN "AmazonRDS"
    ELSE IF HasPrefix(resourceType, "aws_elasticache") THEN "AmazonElastiCache"
    ELSE ""

Tier1Filters(res) ==
    LET code == ServiceCodeOf(res.ResourceType)
    IN  IF code = "AmazonEC2" THEN buildEC2Filters(res.Size, QueryRegion(res))
        ELSE IF code = "AmazonRDS" THEN buildRDSFilters(res.Size, QueryRegion(res))
        ELSE IF code = "AmazonElastiCache" THEN buildElastiCacheFilters(res.Size, QueryRegion(res))
        ELSE <<>>

SimplifiedFieldName(serviceCode) ==
    IF serviceCode = "AmazonElastiCache" THEN "cacheNodeType" ELSE "instanceType"

SimplifiedFilters(serviceCode, size) ==
    <<Filter("ServiceCode", serviceCode)>>
    \o (IF size # "" THEN <<Filter(SimplifiedFieldName(serviceCode), size)>> ELSE <<>>)

T3SmallFilters ==
    <<Filter("ServiceCode", "AmazonEC2"), Filter("instanceType", "t3.small"),
      Filter("operatingSystem", "Linux")>>

\* Whether a relaxed query follows an empty tier-1 answer.
HasRelaxedTier(fs) == Len(fs) > MandatoryFilters

\* ---------------------------------------------------------------- the scans

NotFound == [found |-> FALSE, price |-> 0]
Found(a) == [found |-> TRUE, price |-> a]

\* Tier 1: the first of the first ScanLimit entries that yields a parseable
\* amount decides, whatever the amount.
RECURSIVE Tier1ScanFrom(_, _)
Tier1ScanFrom(list, i) ==
    IF i > Len(list) \/ i - 1 >= ScanLimit THEN {NotFound}
    ELSE IF list[i] = {} THEN Tier1ScanFrom(list, i + 1)
    ELSE {Found(a) : a \in list[i]}

Tier1Scan(list) == Tier1ScanFrom(list, 1)

\* Tier 2: only amounts > 0 are used; the scan goes on past the others.
RECURSIVE Tier2ScanFrom(_, _)
Tier2ScanFrom(list, i) ==
    IF i > Len(list) \/ i - 1 >= ScanLimit THEN {NotFound}
    ELSE IF {a \in list[i] : a > 0} = {} THEN Tier2ScanFrom(list, i + 1)
    ELSE {Found(a) : a \in {b \in list[i] : b > 0}}

\* A slip: the relaxed scan takes the first amount it can parse, like tier 1.
Tier2ScanTakesAny(list) == Tier1Scan(list)

Tier2Scan(list) == Tier2ScanFrom(list, 1)

\* The t3.small lookup: every entry is scanned, only amounts > 0 are used.
RECURSIVE SiblingScanFrom(_, _)
SiblingScanFrom(list, i) ==
    IF i > Len(list) THEN {NotFound}
    ELSE IF {a \in list[i] : a > 0} = {} THEN SiblingScanFrom(list, i + 1)
    ELSE {Found(a) : a \in {b \in list[i] : b > 0}}

SiblingScan(list) == SiblingScanFrom(list, 1)

\* resource.HourlyPrice = h and the two prices derived from it.
WithPrice(res, h) ==
    [res EXCEPT !.HourlyPrice = h,
                !.MonthlyPrice = h * HoursPerMonth,
                !.YearlyPrice = h * HoursPerYear]

ZeroPrices(res) ==
    [res EXCEPT !.HourlyPrice = 0, !.MonthlyPrice = 0, !.YearlyPrice = 0]

\* A slip: the sibling's price is taken as it is.
NotHalved(p) == p

\* t3SmallPrice * 0.5
HalfOf(p) == p \div 2

\* The pricing clients the estimate command registers.
RegisteredProviders == {"aws"}

\* A declaration with a count and tags.
Parsed(t, s, r, q, tags) == [NewResource(t, s, r) EXCEPT !.Quantity = q, !.Tags = tags]

\* The declarations a run draws its resources from: two instances, one of
\* them with count 2 and a tag, a resource of a type the AWS client does not
\* price, and a resource of a provider without pricing client.
Declared ==
    {Parsed("aws_instance", "m5.large", "", 2, [k \in {"env"} |-> "prod"]),
     Parsed("aws_instance", "t3.micro", "eu-west-1", 1, EmptyMap),
     Parsed("aws_s3_bucket", "", "", 1, EmptyMap),
     Parsed("azurerm_virtual_machine", "Standard_B1s", "", 3, EmptyMap)}

\* --------------------------------------------------------------- the Report

\* The fields of a Report that the aggregation reads and writes.  A nil map
\* and a nil slice read like empty ones and are modelled by them; ByTagNil
\* tells that ByTag is the nil map, which reads as empty and cannot be
\* written.
NewReport ==
    [Resources |-> <<>>, TotalHourly |-> 0, TotalMonthly |-> 0, TotalYearly |-> 0,
     ByProvider |-> EmptyMap, ByResourceType |-> EmptyMap, ByRegion |-> EmptyMap,
     ByTag |-> EmptyMap, ByTagNil |-> FALSE, Errors |-> <<>>, Warnings |-> <<>>]

\* The Report literal of CalculateCosts: it shares the caller's resources,
\* makes the maps by provider, by resource type and by region, and leaves
\* ByTag out.
InitialReport(resources) ==
    [NewReport EXCEPT !.Resources = resources, !.ByTagNil = TRUE]

\* r.ByTag[key][value] += v, the inner map made when it is missing
TagAdd(byTag, key, value, v) ==
    [x \in DOMAIN byTag \cup {key} |->
        IF x = key
          THEN MapAdd(IF key \in DOMAIN byTag THEN byTag[key] ELSE EmptyMap, value, v)
        ELSE byTag[x]]

\* for key, value := range resource.Tags { ... }
RECURSIVE TagsAdd(_, _, _, _)
TagsAdd(byTag, tags, keys, v) ==
    IF keys = {} THEN byTag
    ELSE LET key == CHOOSE k \in keys : TRUE
         IN  TagsAdd(TagAdd(byTag, key, tags[key], v), tags, keys \ {key}, v)

\* A slip: the quantity is left out of the aggregation.
Unweighted(price, quantity) == price

\* price * float64(resource.Quantity)
Weighted(price, quantity) == price * quantity

\* The update of totals and breakdowns that AddResource and the loop of
\* Summarize make for one resource.
Accumulate(r, res) ==
    [r EXCEPT !.TotalHourly = @ + Weighted(res.HourlyPrice, res.Quantity),
              !.TotalMonthly = @ + Weighted(res.MonthlyPrice, res.Quantity),
              !.TotalYearly = @ + Weighted(res.YearlyPrice, res.Quantity),
              !.ByProvider = MapAdd(@, res.Provider, Weighted(res.MonthlyPrice, res.Quantity)),
              !.ByResourceType =
                  MapAdd(@, res.ResourceType, Weighted(res.MonthlyPrice, res.Quantity)),
              !.ByRegion = MapAdd(@, res.Region, Weighted(res.MonthlyPrice, res.Quantity)),
              !.ByTag = TagsAdd(@, res.Tags, DOMAIN res.Tags,
                                Weighted(res.MonthlyPrice, res.Quantity))]

\* r.ByTag[key] = make(map[string]float64) on a nil ByTag: the first tag of
\* the resource makes AddResource panic with an assignment to an entry in a
\* nil map.
NilMapWrite(r, res) == r.ByTagNil /\ DOMAIN res.Tags # {}

\* What AddResource has done when it panics in the loop over the tags: the
\* resource is appended, the totals and the three other breakdowns updated.
UntilTags(r, res) ==
    [Accumulate([r EXCEPT !.Resources = Append(@, res)], res) EXCEPT !.ByTag = r.ByTag]

\* A slip: the resource is appended and the sums are left as they are.
AppendOnly(r, res) == [r EXCEPT !.Resources = Append(@, res)]

AddResource(r, res) == Accumulate([r EXCEPT !.Resources = Append(@, res)], res)

AddWarning(r, warning) == [r EXCEPT !.Warnings = Append(@, warning)]

\* A slip: Summarize adds to the totals and breakdowns it finds.
NotCleared(r) == r

\* Summarize: reset totals, clear breakdowns
Cleared(r) ==
    [r EXCEPT !.TotalHourly = 0, !.TotalMonthly = 0, !.TotalYearly = 0,
              !.ByProvider = EmptyMap, !.ByResourceType = EmptyMap,
              !.ByRegion = EmptyMap, !.ByTag = EmptyMap, !.ByTagNil = FALSE]

\* A slip: the loop counts the last resource only.
OnlyLast(r, list, i) == IF Len(list) = 0 THEN r ELSE Accumulate(r, list[Len(list)])

RECURSIVE AccumulateFrom(_, _, _)
AccumulateFrom(r, list, i) ==
    IF i > Len(list) THEN r ELSE AccumulateFrom(Accumulate(r, list[i]), list, i + 1)

Summarize(r) == AccumulateFrom(Cleared(r), r.Resources, 1)

\* CalculateCosts: what a priced resource adds to the report.
AddPrices(r, res) ==
    [r EXCEPT !.TotalHourly = @ + res.HourlyPrice,
              !.TotalMonthly = @ + res.MonthlyPrice,
              !.TotalYearly = @ + res.YearlyPrice,
              !.ByProvider = MapAdd(@, res.Provider, res.MonthlyPrice),
              !.ByResourceType = MapAdd(@, res.ResourceType, res.MonthlyPrice),
              !.ByRegion = MapAdd(@, res.Region, res.MonthlyPrice)]

\* ------------------------------------------------------------- the analyzer

\* The strings package, on the ASCII strings of the inputs.
HasSuffix(s, suffix) ==
    Len(s) >= Len(suffix) /\ SubSeq(s, Len(s) - Len(suffix) + 1, Len(s)) = suffix

Contains(s, substr) ==
    \E i \in 1..(Len(s) - Len(substr) + 1) : SubSeq(s, i, i + Len(substr) - 1) = substr

\* strings.Count(s, sep) for a separator of one character
Count(s, sep) == Cardinality({i \in 1..Len(s) : SubSeq(s, i, i) = sep})

\* strings.Split(s, sep) for a separator of one character
RECURSIVE Split(_, _)
Split(s, sep) ==
    LET first == HeadBefore(s, sep, 1)
    IN  IF Len(first) = Len(s) THEN <<s>>
        ELSE <<first>> \o Split(SubSeq(s, Len(first) + 2, Len(s)), sep)

UpperLetters ==
    <<"A", "B", "C", "D", "E", "F", "G", "H", "I", "J", "K", "L", "M",
      "N", "O", "P", "Q", "R", "S", "T", "U", "V", "W", "X", "Y", "Z">>

LowerLetters ==
    <<"a", "b", "c", "d", "e", "f", "g", "h", "i", "j", "k", "l", "m",
      "n", "o", "p", "q", "r", "s", "t", "u", "v", "w", "x", "y", "z">>

DigitChars == {"0", "1", "2", "3", "4", "5", "6", "7", "8", "9"}

IsLetter(c) == \E i \in 1..Len(LowerLetters) : c = LowerLetters[i] \/ c = UpperLetters[i]

IsDigit(c) == c \in DigitChars

LowerOf(c) ==
    IF \E i \in 1..Len(UpperLetters) : UpperLetters[i] = c
      THEN LowerLetters[CHOOSE i \in 1..Len(UpperLetters) : UpperLetters[i] = c]
    ELSE c

RECURSIVE ToLower(_)
ToLower(s) ==
    IF Len(s) = 0 THEN s
    ELSE LowerOf(SubSeq(s, 1, 1)) \o ToLower(SubSeq(s, 2, Len(s)))

EqualFold(s, t) == ToLower(s) = ToLower(t)

\* fmt.Sscanf(s, "%d", new(int)) returns no error: after leading spaces and
\* an optional sign the input starts with a decimal digit.
RECURSIVE ScansInt(_)
ScansInt(s) ==
    IF Len(s) = 0 THEN FALSE
    ELSE IF SubSeq(s, 1, 1) = " " THEN ScansInt(SubSeq(s, 2, Len(s)))
    ELSE LET digits == IF SubSeq(s, 1, 1) \in {"+", "-"} THEN SubSeq(s, 2, Len(s)) ELSE s
         IN  Len(digits) > 0 /\ IsDigit(SubSeq(digits, 1, 1))

\* The value of an attribute's expression: a string, a number (num is twice
\* the number, so that a half can be declared), a map of strings, or an
\* expression that cannot be evaluated without variables.
StringValue(s) == [kind |-> "string", str |-> s, num |-> 0, elems |-> EmptyMap]
NumberValue(n) == [kind |-> "number", str |-> "", num |-> n, elems |-> EmptyMap]
MapValue(m) == [kind |-> "map", str |-> "", num |-> 0, elems |-> m]
UnknownValue == [kind |-> "unknown", str |-> "", num |-> 0, elems |-> EmptyMap]

\* The attributes of a resource block: at most MaxAttrs of these names, each
\* with one of these values.
AttrNames ==
    {"instance_type", "disk_type", "size", "name", "count",
     "region", "dns_zone", "availability_zone"}

AttrStrings == {"t2.micro", "gp2", "us-east-1", "eastus", "my-app-server", ""}

\* count = -2, 0, 0.5 and 2.5
AttrNumbers == {-4, 0, 1, 5}

\* The values an attribute is declared with: count with a number, a string
\* or an expression over variables, the others with a string or a number.
AttrValues(attrName) ==
    IF attrName = "count"
      THEN {NumberValue(n) : n \in AttrNumbers} \cup {StringValue("gp2"), UnknownValue}
    ELSE {StringValue(s) : s \in AttrStrings} \cup {NumberValue(5)}

AttrMaps ==
    UNION {{m \in [S -> UNION {AttrValues(n) : n \in S}] :
               \A n \in S : m[n] \in AttrValues(n)} :
           S \in {T \in SUBSET AttrNames : Cardinality(T) <= MaxAttrs}}

getExprStringValue(value) ==
    IF value.kind # "string" THEN [val |-> "", err |-> "not a string value"]
    ELSE [val |-> value.str, err |-> NilErr]

\* err == nil && val != ""
HasString(value) ==
    getExprStringValue(value).err = NilErr /\ getExprStringValue(value).val # ""

sizePatterns ==
    <<[suffix |-> "instance_type", priority |-> 100],
      [suffix |-> "_type", priority |-> 90],
      [suffix |-> "machine_type", priority |-> 85],
      [suffix |-> "size", priority |-> 80],
      [suffix |-> "instance_class", priority |-> 75],
      [suffix |-> "_class", priority |-> 70],
      [suffix |-> "_tier", priority |-> 65],
      [suffix |-> "_size", priority |-> 60],
      [suffix |-> "node_type", priority |-> 55],
      [suffix |-> "bundle_id", priority |-> 50],
      [suffix |-> "sku_name", priority |-> 45],
      [suffix |-> "flavor", priority |-> 40]>>

sizeSuffixes == <<"small", "medium", "large", "xlarge", "2xlarge", "micro", "nano">>

looksLikeInstanceType(value) ==
    \/ /\ Contains(value, ".")
       /\ Len(value) >= 4
       /\ LET first == Split(value, ".")[1]
          IN  /\ Len(Split(value, ".")) >= 2
              /\ Len(first) >= 2
              /\ \E i \in 1..Len(first) : IsLetter(SubSeq(first, i, i))
              /\ \E i \in 1..Len(first) : IsDigit(SubSeq(first, i, i))
    \/ HasPrefix(value, "Standard_") /\ Contains(value, "_")
    \/ Contains(value, "-") /\ Len(Split(value, "-")) >= 2
    \/ \E i \in 1..Len(sizeSuffixes) :
          HasSuffix(value, sizeSuffixes[i]) \/ HasSuffix(value, "." \o sizeSuffixes[i])

\* looksLikeInstanceType on the strings of the inputs, evaluated once.
InstanceTypeLike == {s \in AttrStrings : looksLikeInstanceType(s)}

\* candidates[val] = priority, for the values of a set
SetAll(candidates, vals, priority) ==
    [val \in DOMAIN candidates \cup vals |->
        IF val \in vals THEN priority ELSE candidates[val]]

\* attrName == pattern.suffix || strings.HasSuffix(attrName, pattern.suffix),
\* on the names of the inputs, evaluated once.
PatternNames ==
    [i \in 1..Len(sizePatterns) |->
        {n \in AttrNames : n = sizePatterns[i].suffix \/ HasSuffix(n, sizePatterns[i].suffix)}]

\* The values of the attributes that pattern i sights.  The inner loop gives
\* each of them the pattern's priority, in whatever order it meets them.
SightedBy(attrs, i) ==
    {getExprStringValue(attrs[attrName]).val :
        attrName \in {n \in DOMAIN attrs : n \in PatternNames[i] /\ HasString(attrs[n])}}

\* First pass, from pattern i on.
RECURSIVE FirstPass(_, _, _)
FirstPass(candidates, attrs, i) ==
    IF i > Len(sizePatterns) THEN candidates
    ELSE FirstPass(SetAll(candidates, SightedBy(attrs, i), sizePatterns[i].priority),
                   attrs, i + 1)

BoostedName(attrName) ==
    \/ Contains(attrName, "instance")
    \/ Contains(attrName, "type")
    \/ Contains(attrName, "size")
    \/ Contains(attrName, "class")

BoostedNames == {n \in AttrNames : BoostedName(n)}

\* Second pass, over the attributes in the order the map's iteration gives.
RECURSIVE SecondPass(_, _, _)
SecondPass(candidates, attrs, order) ==
    IF order = <<>> THEN candidates
    ELSE LET attrName == Head(order)
             val == getExprStringValue(attrs[attrName]).val
         IN  IF HasString(attrs[attrName]) /\ val \in InstanceTypeLike
               THEN SecondPass(SetAll(candidates, {val},
                                      IF attrName \in BoostedNames THEN 75 ELSE 30),
                               attrs, Tail(order))
             ELSE SecondPass(candidates, attrs, Tail(order))

\* The highest priority candidate, over the candidates in the order the
\* map's iteration gives.
RECURSIVE Best(_, _, _, _)
Best(candidates, order, bestValue, bestPriority) ==
    IF order = <<>> THEN bestValue
    ELSE IF candidates[Head(order)] > bestPriority
           THEN Best(candidates, Tail(order), Head(order), candidates[Head(order)])
    ELSE Best(candidates, Tail(order), bestValue, bestPriority)

\* The orders in which the iteration of a map can give its keys.
Orders(S) ==
    {order \in [1..Cardinality(S) -> S] :
        \A i, j \in 1..Cardinality(S) : i # j => order[i] # order[j]}

Candidates(attrs, order) == SecondPass(FirstPass(EmptyMap, attrs, 1), attrs, order)

\* FindSizeField under an iteration order of the attributes and one of the
\* candidates.
FindSizeField(attrs, order, candidateOrder) ==
    Best(Candidates(attrs, order), candidateOrder, "", -1)

\* The candidates and the result of FindSizeField, under every iteration
\* order of the attributes and of the candidates.
SizeResults(attrs) ==
    UNION {LET candidates == Candidates(attrs, order)
           IN  {[candidates |-> candidates,
                 value |-> Best(candidates, candidateOrder, "", -1)] :
                    candidateOrder \in Orders(DOMAIN candidates)} :
           order \in Orders(DOMAIN attrs)}

commonAzureRegions ==
    <<"eastus", "westus", "centralus", "northeurope", "westeurope",
      "eastasia", "southeastasia", "australiaeast">>

\* A slip: every string with a hyphen is taken for a region.
Hyphenated(value) == Contains(value, "-")

looksLikeRegion(value) ==
    LET parts == Split(value, "-")
    IN  IF /\ Count(value, "-") = 2
           /\ Len(value) >= 7
           /\ Len(parts) = 3
           /\ Len(parts[1]) = 2
           /\ Len(parts[2]) >= 4
          THEN ScansInt(parts[3])
        ELSE \/ \E i \in 1..Len(commonAzureRegions) : EqualFold(value, commonAzureRegions[i])
             \/ /\ Count(value, "-") = 1
                /\ HasSuffix(value, "1")
                /\ Len(parts) = 2
                /\ Len(parts[1]) = 2 \/ Len(parts[1]) > 4

\* Strings of two segments that end in a digit.
ShapeFirsts == {"us", "eu", "asia", "europe"}
ShapeSeconds == {"west", "east", "central"}
ShapeStrings ==
    {first \o "-" \o second \o digit :
        first \in ShapeFirsts, second \in ShapeSeconds, digit \in DigitChars}

\* looksLikeRegion on the strings of the inputs, evaluated once.
RegionLike == {s \in AttrStrings \cup ShapeStrings : looksLikeRegion(s)}

\* A slip: the zone is tried before the region.
zoneFirst == <<"zone", "availability_zone", "region", "location">>

regionFields == <<"region", "location", "zone", "availability_zone">>

\* Try direct matches first.
DirectMatches(attrs) ==
    {i \in 1..Len(regionFields) :
        regionFields[i] \in DOMAIN attrs /\ HasString(attrs[regionFields[i]])}

\* Fields containing region-related keywords.
KeywordName(attrName) ==
    \/ Contains(ToLower(attrName), "region")
    \/ Contains(ToLower(attrName), "location")
    \/ Contains(ToLower(attrName), "zone")

KeywordNames == {n \in AttrNames : KeywordName(n)}

KeywordMatches(attrs) ==
    {attrName \in DOMAIN attrs : attrName \in KeywordNames /\ HasString(attrs[attrName])}

\* Values that look like regions.
ShapeMatches(attrs) ==
    {attrName \in DOMAIN attrs :
        HasString(attrs[attrName]) /\ getExprStringValue(attrs[attrName]).val \in RegionLike}

\* The first name of a set in an iteration order.
FirstIn(order, S) == order[CHOOSE i \in 1..Len(order) :
                              order[i] \in S /\ \A j \in 1..(i - 1) : order[j] \notin S]

\* FindRegionField under the iteration orders of its second and third loop.
FindRegionField(attrs, order2, order3) ==
    IF DirectMatches(attrs) # {}
      THEN LET first == CHOOSE i \in DirectMatches(attrs) :
                            \A j \in DirectMatches(attrs) : i <= j
           IN  getExprStringValue(attrs[regionFields[first]]).val
    ELSE IF KeywordMatches(attrs) # {}
      THEN getExprStringValue(attrs[FirstIn(order2, KeywordMatches(attrs))]).val
    ELSE IF ShapeMatches(attrs) # {}
      THEN getExprStringValue(attrs[FirstIn(order3, ShapeMatches(attrs))]).val
    ELSE ""

\* The results of FindRegionField under every iteration order.
RegionResults(attrs) ==
    {FindRegionField(attrs, order2, order3) :
        order2 \in Orders(DOMAIN attrs), order3 \in Orders(DOMAIN attrs)}

\* A slip: the count is converted whatever its sign.
CountAsDeclared(attrs) ==
    IF "count" \in DOMAIN attrs /\ attrs["count"].kind = "number"
      THEN attrs["count"].num \div 2
    ELSE 1

\* int(f) of a positive f truncates; num is twice f.
FindQuantity(attrs) ==
    IF /\ "count" \in DOMAIN attrs
       /\ attrs["count"].kind = "number"
       /\ attrs["count"].num > 0
      THEN attrs["count"].num \div 2
    ELSE 1

ExtractTags(attrs) ==
    IF "tags" \in DOMAIN attrs /\ attrs["tags"].kind = "map"
      THEN attrs["tags"].elems
    ELSE EmptyMap

\* The explicit check for a size that Parse falls back to: the loop over the
\* attributes lets the last of instance_type and size in its order stand.
RECURSIVE FallbackSize(_, _, _)
FallbackSize(size, attrs, order) ==
    IF order = <<>> THEN size
    ELSE IF /\ attrs[Head(order)].kind # "unknown"
            /\ Head(order) \in {"instance_type", "size"}
            /\ attrs[Head(order)].kind = "string"
           THEN FallbackSize(attrs[Head(order)].str, attrs, Tail(order))
    ELSE FallbackSize(size, attrs, Tail(order))

FallbackRegion(attrs) ==
    IF "region" \in DOMAIN attrs /\ attrs["region"].kind = "string"
      THEN attrs["region"].str
    ELSE ""

\* A slip: the quantity is left as the analyzer gave it.
AsFound(quantity) == quantity

\* Ensure default quantity.
EnsureQuantity(quantity) == IF quantity < 1 THEN 1 ELSE quantity

\* The resource Parse makes of a block with the given type and attributes,
\* of the analyzer's size and region and of the size its own loop finds.
ParseResource(resourceType, attrs, size, region, fallbackSize) ==
    [NewResource(resourceType,
                 IF size = "" THEN fallbackSize ELSE size,
                 IF region = "" THEN FallbackRegion(attrs) ELSE region)
        EXCEPT !.Quantity = EnsureQuantity(FindQuantity(attrs)),
               !.Tags = ExtractTags(attrs)]

\* The resources Parse can make of a block, under every iteration order of
\* the loops over the attributes.
ParseResults(resourceType, attrs) ==
    {ParseResource(resourceType, attrs, run.value, region, fallbackSize) :
        run \in SizeResults(attrs),
        region \in RegionResults(attrs),
        fallbackSize \in {FallbackSize("", attrs, order) : order \in Orders(DOMAIN attrs)}}

\* CalculateDerivedPrices
CalculateDerivedPrices(r) ==
    IF r.HourlyPrice > 0
      THEN [r EXCEPT !.MonthlyPrice = r.HourlyPrice * HoursPerMonth,
                     !.YearlyPrice = r.HourlyPrice * HoursPerYear]
    ELSE r

\* -------------------------------------------------------------------- state

VARIABLES
    client,       \* the shared Client: initialized, error, pricingClient (set or nil)
    pc,           \* per caller: where its GetPrice call stands
    resource,     \* per caller: the resource the call prices
    serviceCode,  \* per caller: local serviceCode
    filters,      \* per caller: local filters
    attempt,      \* per caller: local attempt of the retry loop
    err,          \* per caller: local err
    response,     \* per caller: the PriceList of the product query being processed
    ret,          \* per caller: the error GetPrice returned (NilErr: none)
    log,          \* per caller: the network operations and sleeps of the call, in order
    entry,        \* per caller: the client as the call found it
    initCalls,    \* how many times Initialize has been entered
    report,       \* the Report of the run: its Resources, totals, breakdowns, Warnings
    calcPc,       \* where CalculateCosts stands: "none", "loop", "pricing", "returned",
                  \* and for the holder of the report "added", "panic"
    idx,          \* CalculateCosts: the loop index i (1-based)
    input,        \* the resources as the parser handed them to CalculateCosts
    calls,        \* the indexes GetPrice has been called for, in order
    outcome,      \* per index: the error GetPrice returned for it ("" when not called)
    calcErr,      \* the error CalculateCosts returned
    lastOp,       \* the Report method called last, or "edit" for a direct change
    onlyAdded,    \* the Report is a new one on which only AddResource has acted
    attrs,        \* the attributes of the resource block under analysis
    sizeRuns,     \* the FindSizeField calls made on attrs: candidates and result
    regionRuns,   \* the results of the FindRegionField calls made on attrs
    quantityRuns, \* the results of the FindQuantity calls made on attrs
    parsed,       \* the resources Parse has made of the block
    item,         \* a Resource whose prices its holder sets
    itemOp        \* what was done last to item

\* The state of CalculateCosts and of the Report.
calcVars == <<report, calcPc, idx, input, calls, outcome, calcErr, lastOp, onlyAdded>>

\* The state of the parser's analysis of one block, and of a Resource.
parseVars == <<attrs, sizeRuns, regionRuns, quantityRuns, parsed, item, itemOp>>

vars == <<client, pc, resource, serviceCode, filters, attempt, err, response, ret, log, entry, initCalls,
          report, calcPc, idx, input, calls, outcome, calcErr, lastOp, onlyAdded,
          attrs, sizeRuns, regionRuns, quantityRuns, parsed, item, itemOp>>

locals == <<serviceCode, filters, attempt, err, response>>

\* Log records.
\* Log records: a handshake operation, a product query (which query, its
\* filters, the attempt, whether it returned without a transport error, how
\* many entries it returned) and a sleep of n milliseconds.
NetOp(op, ok) ==
    [op |-> op, query |-> "", filters |-> <<>>, n |-> 0, ok |-> ok, count |-> 0]
ProductsOp(query, fs, n, ans) ==
    [op |-> "GetProducts", query |-> query, filters |-> fs, n |-> n,
     ok |-> ans.err = NilErr, count |-> Len(ans.list)]
SleepOp(ms) ==
    [op |-> "Sleep", query |-> "", filters |-> <<>>, n |-> ms, ok |-> TRUE, count |-> 0]

\* What a product query may answer: a transport error, or a price list of L.
Answers(L) ==
    {[err |-> e, list |-> <<>>] : e \in ApiErrors} \cup {[err |-> NilErr, list |-> l] : l \in L}

\* The error messages GetPrice returns.
ErrUnavailable(e) == "AWS pricing data unavailable: " \o e
ErrUnsupported(t) == "unsupported resource type for pricing: " \o t
ErrTransport(e) == "failed to get pricing data: " \o e
ErrNoExtract == "could not extract price from API response"
ErrNoValid(id) == "no valid pricing found for resource: " \o id
ErrNoData(id) == "no pricing data found for resource: " \o id

\* The Client after aws.NewClient() and no GetPrice call under way.
InitClient ==
    /\ client = NewClient
    /\ pc = [p \in Callers |-> "idle"]
    /\ resource = [p \in Callers |-> NewResource("aws_instance", "", "")]
    /\ serviceCode = [p \in Callers |-> ""]
    /\ filters = [p \in Callers |-> <<>>]
    /\ attempt = [p \in Callers |-> 0]
    /\ err = [p \in Callers |-> NilErr]
    /\ response = [p \in Callers |-> <<>>]
    /\ ret = [p \in Callers |-> NilErr]
    /\ log = [p \in Callers |-> <<>>]
    /\ entry = [p \in Callers |-> NewClient]
    /\ initCalls = 0

\* No CalculateCosts run and no Report.
NoRun ==
    /\ report = NewReport
    /\ calcPc = "none"
    /\ idx = 0
    /\ input = <<>>
    /\ calls = <<>>
    /\ outcome = <<>>
    /\ calcErr = NilErr
    /\ lastOp = ""
    /\ onlyAdded = TRUE

\* No block under analysis and a Resource from model.NewResource().
NoParse ==
    /\ attrs = EmptyMap
    /\ sizeRuns = <<>>
    /\ regionRuns = <<>>
    /\ quantityRuns = <<>>
    /\ parsed = <<>>
    /\ item = NewResource("aws_instance", "", "")
    /\ itemOp = ""

Init == InitClient /\ NoRun /\ NoParse

\* return e, leaving the resource as res.
Return(p, res, e) ==
    /\ pc' = [pc EXCEPT ![p] = "done"]
    /\ resource' = [resource EXCEPT ![p] = res]
    /\ ret' = [ret EXCEPT ![p] = e]

\* The caller's loop calls GetPrice with the next resource, fresh from the
\* parser.
Call(p, T, S, R) ==
    /\ pc[p] = "idle"
    /\ \E t \in T, s \in S, r \in R :
         resource' = [resource EXCEPT ![p] = NewResource(t, s, r)]
    /\ entry' = [entry EXCEPT ![p] = client]
    /\ pc' = [pc EXCEPT ![p] = "check"]
    /\ UNCHANGED <<client, locals, ret, log, initCalls, calcVars, parseVars>>

\* GetPrice has returned: its locals are gone and the caller's loop moves on
\* from the resource, whether the call failed or not.
NextResource(p) ==
    /\ pc[p] = "done"
    /\ pc' = [pc EXCEPT ![p] = "idle"]
    /\ resource' = [resource EXCEPT ![p] = NewResource("aws_instance", "", "")]
    /\ serviceCode' = [serviceCode EXCEPT ![p] = ""]
    /\ filters' = [filters EXCEPT ![p] = <<>>]
    /\ attempt' = [attempt EXCEPT ![p] = 0]
    /\ err' = [err EXCEPT ![p] = NilErr]
    /\ response' = [response EXCEPT ![p] = <<>>]
    /\ ret' = [ret EXCEPT ![p] = NilErr]
    /\ log' = [log EXCEPT ![p] = <<>>]
    /\ entry' = [entry EXCEPT ![p] = client]
    /\ UNCHANGED <<client, initCalls, calcVars, parseVars>>

\* A slip: initialization is tried again after it has failed.
NeedsInitializeAgain(c) == ~c.initialized \/ c.error # NilErr

\* if !c.initialized
NeedsInitialize(c) == ~c.initialized

\* else if c.error != nil
HasCachedError(c) == c.error # NilErr

\* if !c.initialized { c.Initialize() ... } else if c.error != nil { ... return }
CheckInit(p) ==
    /\ pc[p] = "check"
    /\ IF NeedsInitialize(client)
         THEN /\ pc' = [pc EXCEPT ![p] = "init"]
              /\ UNCHANGED <<resource, ret>>
       ELSE IF HasCachedError(client)
         THEN Return(p, [ZeroPrices(resource[p]) EXCEPT
                           !.PricingDetails = Details("Error: " \o client.error)],
                     ErrUnavailable(client.error))
       ELSE /\ pc' = [pc EXCEPT ![p] = "classify"]
            /\ UNCHANGED <<resource, ret>>
    /\ UNCHANGED <<client, locals, log, entry, initCalls, calcVars, parseVars>>

\* Initialize: c.initialized = true
InitMark(p) ==
    /\ pc[p] = "init"
    /\ client' = [client EXCEPT !.initialized = TRUE]
    /\ initCalls' = initCalls + 1
    /\ pc' = [pc EXCEPT ![p] = "init_config"]
    /\ UNCHANGED <<resource, locals, ret, log, entry, calcVars, parseVars>>

\* Initialize: config.LoadDefaultConfig, then c.error or c.pricingClient
InitLoadConfig(p) ==
    /\ pc[p] = "init_config"
    /\ \/ /\ log' = [log EXCEPT ![p] = Append(@, NetOp("LoadDefaultConfig", TRUE))]
          /\ client' = [client EXCEPT !.pricingClient = TRUE]
          /\ pc' = [pc EXCEPT ![p] = "init_describe"]
          /\ UNCHANGED err
       \/ \E e \in ConfigErrors :
            /\ log' = [log EXCEPT ![p] = Append(@, NetOp("LoadDefaultConfig", FALSE))]
            /\ client' = [client EXCEPT !.error = "AWS credentials not found: " \o e]
            /\ err' = [err EXCEPT ![p] = "AWS credentials not found: " \o e]
            /\ pc' = [pc EXCEPT ![p] = "init_failed"]
    /\ UNCHANGED <<resource, serviceCode, filters, attempt, response, ret, entry, initCalls, calcVars, parseVars>>

\* Initialize: DescribeServices as a test of the client
InitDescribe(p) ==
    /\ pc[p] = "init_describe"
    /\ \/ /\ log' = [log EXCEPT ![p] = Append(@, NetOp("DescribeServices", TRUE))]
          /\ pc' = [pc EXCEPT ![p] = "classify"]
          /\ UNCHANGED <<client, err>>
       \/ \E e \in ApiErrors :
            /\ log' = [log EXCEPT ![p] = Append(@, NetOp("DescribeServices", FALSE))]
            /\ client' = [client EXCEPT !.error = "AWS API access failed: " \o e]
            /\ err' = [err EXCEPT ![p] = "AWS API access failed: " \o e]
            /\ pc' = [pc EXCEPT ![p] = "init_failed"]
    /\ UNCHANGED <<resource, serviceCode, filters, attempt, response, ret, entry, initCalls, calcVars, parseVars>>

\* GetPrice: Initialize returned err
InitFailed(p) ==
    /\ pc[p] = "init_failed"
    /\ Return(p, [ZeroPrices(resource[p]) EXCEPT
                    !.PricingDetails = Details("Error: " \o err[p])],
              ErrUnavailable(err[p]))
    /\ UNCHANGED <<client, locals, log, entry, initCalls, calcVars, parseVars>>

\* The switch on the resource type: service code and tier-1 filters, or the
\* default branch.
Classify(p) ==
    /\ pc[p] = "classify"
    /\ LET code == ServiceCodeOf(resource[p].ResourceType)
       IN  IF code = ""
             THEN /\ Return(p, ZeroPrices(resource[p]), ErrUnsupported(resource[p].ResourceType))
                  /\ UNCHANGED locals
           ELSE /\ serviceCode' = [serviceCode EXCEPT ![p] = code]
                /\ filters' = [filters EXCEPT ![p] = Tier1Filters(resource[p])]
                /\ attempt' = [attempt EXCEPT ![p] = 1]
                /\ pc' = [pc EXCEPT ![p] = "tier1"]
                /\ UNCHANGED <<resource, ret, err, response>>
    /\ UNCHANGED <<client, log, entry, initCalls, calcVars, parseVars>>

\* One attempt of the tier-1 query; a failed attempt that is not the last is
\* followed by a sleep.  Calling GetProducts through a nil pricingClient panics.
Tier1Attempt(p, L) ==
    /\ pc[p] = "tier1"
    /\ IF ~client.pricingClient
         THEN /\ pc' = [pc EXCEPT ![p] = "panic"]
              /\ UNCHANGED <<log, err, response, attempt>>
       ELSE \E ans \in Answers(L) :
              /\ log' = [log EXCEPT ![p] =
                           Append(@, ProductsOp("tier1", filters[p], attempt[p], ans))]
              /\ err' = [err EXCEPT ![p] = ans.err]
              /\ response' = [response EXCEPT ![p] = ans.list]
              /\ IF ans.err = NilErr
                   THEN /\ pc' = [pc EXCEPT ![p] = "tier1_done"]
                        /\ UNCHANGED attempt
                 ELSE IF attempt[p] < MaxAttempts
                   THEN /\ pc' = [pc EXCEPT ![p] = "sleep"]
                        /\ UNCHANGED attempt
                 ELSE /\ pc' = [pc EXCEPT ![p] = "tier1_done"]
                      /\ attempt' = [attempt EXCEPT ![p] = @ + 1]
    /\ UNCHANGED <<client, resource, serviceCode, filters, ret, entry, initCalls, calcVars, parseVars>>

\* time.Sleep(attempt * 500ms), then the next attempt
Sleep(p) ==
    /\ pc[p] = "sleep"
    /\ log' = [log EXCEPT ![p] = Append(@, SleepOp(attempt[p] * BackoffUnitMs))]
    /\ attempt' = [attempt EXCEPT ![p] = @ + 1]
    /\ pc' = [pc EXCEPT ![p] = "tier1"]
    /\ UNCHANGED <<client, resource, serviceCode, filters, err, response, ret, entry, initCalls, calcVars, parseVars>>

\* A slip: a transport failure of the query is cached in the Client like a
\* failure of the handshake.
Tier1DoneMarksFailed(p) ==
    /\ pc[p] = "tier1_done"
    /\ IF err[p] # NilErr
         THEN /\ Return(p, [ZeroPrices(resource[p]) EXCEPT
                              !.PricingDetails = Details("Error: " \o err[p])],
                        ErrTransport(err[p]))
              /\ client' = [client EXCEPT !.error = err[p]]
       ELSE IF Len(response[p]) > 0
         THEN /\ resource' = [resource EXCEPT ![p].PricingDetails = Details("AWS Pricing API")]
              /\ pc' = [pc EXCEPT ![p] = "scan"]
              /\ UNCHANGED <<ret, client>>
       ELSE IF HasRelaxedTier(filters[p])
         THEN /\ pc' = [pc EXCEPT ![p] = "tier2"]
              /\ UNCHANGED <<resource, ret, client>>
       ELSE /\ Return(p, ZeroPrices(resource[p]), ErrNoData(resource[p].ID))
            /\ UNCHANGED client
    /\ UNCHANGED <<locals, log, entry, initCalls, calcVars, parseVars>>

\* After the retry loop: transport failure, entries to scan, or no entries.
Tier1Done(p) ==
    /\ pc[p] = "tier1_done"
    /\ IF err[p] # NilErr
         THEN Return(p, [ZeroPrices(resource[p]) EXCEPT
                           !.PricingDetails = Details("Error: " \o err[p])],
                     ErrTransport(err[p]))
       ELSE IF Len(response[p]) > 0
         THEN /\ resource' = [resource EXCEPT ![p].PricingDetails = Details("AWS Pricing API")]
              /\ pc' = [pc EXCEPT ![p] = "scan"]
              /\ UNCHANGED ret
       ELSE IF HasRelaxedTier(filters[p])
         THEN /\ pc' = [pc EXCEPT ![p] = "tier2"]
              /\ UNCHANGED <<resource, ret>>
       ELSE Return(p, ZeroPrices(resource[p]), ErrNoData(resource[p].ID))
    /\ UNCHANGED <<client, locals, log, entry, initCalls, calcVars, parseVars>>

\* The scan of the tier-1 entries, up to the t3.micro special case.
Scan(p) ==
    /\ pc[p] = "scan"
    /\ \E r \in Tier1Scan(response[p]) :
         IF ~r.found
           THEN Return(p, ZeroPrices(resource[p]), ErrNoExtract)
         ELSE LET priced == WithPrice(resource[p], r.price)
              IN  IF priced.Size = "t3.micro" /\ priced.HourlyPrice = 0
                    THEN /\ resource' = [resource EXCEPT ![p] = priced]
                         /\ pc' = [pc EXCEPT ![p] = "sibling"]
                         /\ UNCHANGED ret
                  ELSE Return(p, priced, NilErr)
    /\ UNCHANGED <<client, locals, log, entry, initCalls, calcVars, parseVars>>

\* The t3.small lookup of the t3.micro special case, and its scan.
Sibling(p, L) ==
    /\ pc[p] = "sibling"
    /\ \E ans \in Answers(L) :
         /\ log' = [log EXCEPT ![p] =
                      Append(@, ProductsOp("sibling", T3SmallFilters, 1, ans))]
         /\ response' = [response EXCEPT ![p] = ans.list]
         /\ IF ans.err = NilErr /\ Len(ans.list) > 0
              THEN \E r \in SiblingScan(ans.list) :
                     IF r.found /\ r.price > 0
                       THEN Return(p, [WithPrice(resource[p], HalfOf(r.price)) EXCEPT
                                         !.PricingDetails[1].PricingSource =
                                            "Estimated based on t3.small pricing (50% ratio)"],
                                   NilErr)
                     ELSE Return(p, resource[p], NilErr)
            ELSE Return(p, resource[p], NilErr)
    /\ UNCHANGED <<client, serviceCode, filters, attempt, err, entry, initCalls, calcVars, parseVars>>

\* The relaxed query with the simplified filters, and its scan.
Tier2(p, L) ==
    /\ pc[p] = "tier2"
    /\ \E ans \in Answers(L) :
         /\ log' = [log EXCEPT ![p] =
                      Append(@, ProductsOp("tier2",
                                           SimplifiedFilters(serviceCode[p], resource[p].Size),
                                           1, ans))]
         /\ response' = [response EXCEPT ![p] = ans.list]
         /\ IF ans.err = NilErr /\ Len(ans.list) > 0
              THEN \E r \in Tier2Scan(ans.list) :
                     IF r.found
                       THEN Return(p, [WithPrice(resource[p], r.price) EXCEPT
                                         !.PricingDetails =
                                            IF @ = Nil
                                              THEN Details("AWS Pricing API (simplified query)")
                                              ELSE @],
                                   NilErr)
                     ELSE Return(p, ZeroPrices(resource[p]), ErrNoValid(resource[p].ID))
            ELSE Return(p, ZeroPrices(resource[p]), ErrNoData(resource[p].ID))
    /\ UNCHANGED <<client, serviceCode, filters, attempt, err, entry, initCalls, calcVars, parseVars>>

\* ----------------------------------------------------------- specifications

\* The program: CalculateCosts calls GetPrice for one resource after the other.
Next ==
    \E p \in SeqCallers :
        \/ Call(p, ResourceTypes, Sizes, Regions)
        \/ NextResource(p)
        \/ CheckInit(p)
        \/ InitMark(p)
        \/ InitLoadConfig(p)
        \/ InitDescribe(p)
        \/ InitFailed(p)
        \/ Classify(p)
        \/ Tier1Attempt(p, PriceLists)
        \/ Sleep(p)
        \/ Tier1Done(p)
        \/ Scan(p)
        \/ Sibling(p, PriceLists)
        \/ Tier2(p, PriceLists)

Spec == Init /\ [][Next]_vars

\* Two GetPrice calls on the same Client with no synchronisation between
\* them (the Client has none): their statement blocks interleave freely.
ConcTypes == {"aws_instance", "azurerm_virtual_machine"}
ConcSizes == {"t3.micro"}
ConcRegions == {""}

NextConc ==
    \E p \in ConcCallers :
        \/ Call(p, ConcTypes, ConcSizes, ConcRegions)
        \/ NextResource(p)
        \/ CheckInit(p)
        \/ InitMark(p)
        \/ InitLoadConfig(p)
        \/ InitDescribe(p)
        \/ InitFailed(p)
        \/ Classify(p)
        \/ Tier1Attempt(p, ShortPriceLists)
        \/ Sleep(p)
        \/ Tier1Done(p)
        \/ Scan(p)
        \/ Sibling(p, ShortPriceLists)
        \/ Tier2(p, ShortPriceLists)

SpecConc == Init /\ [][NextConc]_vars

\* A catalog that may stay silent.  Every catalog call of the Client
\* (DescribeServices and the three GetProducts) is made with context.TODO(),
\* which has no deadline and cannot be cancelled: a call that gets no answer
\* does not return, and the caller waits in it.
NetworkPcs == {"init_describe", "tier1", "tier2", "sibling"}

Blocks(p) ==
    /\ pc[p] \in NetworkPcs
    /\ pc[p] = "tier1" => client.pricingClient
    /\ pc' = [pc EXCEPT ![p] = "waiting"]
    /\ UNCHANGED <<client, resource, locals, ret, log, entry, initCalls, calcVars, parseVars>>

\* GetPrice calls in sequence on a catalog that answers every query.
NextAnswered ==
    \E p \in SeqCallers :
        \/ Call(p, ConcTypes, ConcSizes, ConcRegions)
        \/ NextResource(p)
        \/ CheckInit(p)
        \/ InitMark(p)
        \/ InitLoadConfig(p)
        \/ InitDescribe(p)
        \/ InitFailed(p)
        \/ Classify(p)
        \/ Tier1Attempt(p, ShortPriceLists)
        \/ Sleep(p)
        \/ Tier1Done(p)
        \/ Scan(p)
        \/ Sibling(p, ShortPriceLists)
        \/ Tier2(p, ShortPriceLists)

\* The caller's goroutine keeps running: a step that can be taken is taken.
SpecAnswered == Init /\ [][NextAnswered]_vars /\ WF_vars(NextAnswered)

NextSilent ==
    \/ NextAnswered
    \/ \E p \in SeqCallers : Blocks(p)

\* The caller's goroutine keeps running: a step that can be taken is taken.
SpecSilent == Init /\ [][NextSilent]_vars /\ WF_vars(NextSilent)

\* ------------------------------------------------------------ CalculateCosts

\* The resource lists a run may be given.
ResourceLists == SeqsUpTo(Declared, MaxResources)

\* CalculateCosts(resources) has built its Report and is about to loop.
InitCalc ==
    /\ InitClient
    /\ \E resources \in ResourceLists :
         /\ input = resources
         /\ report = InitialReport(resources)
         /\ outcome = [i \in 1..Len(resources) |-> ""]
    /\ calcPc = "loop"
    /\ idx = 1
    /\ calls = <<>>
    /\ calcErr = NilErr
    /\ lastOp = ""
    /\ onlyAdded = TRUE
    /\ NoParse

\* A slip: the first resource that cannot be priced ends the loop.
BreakAfterError(i, n) == n + 1

\* if err := client.GetPrice(resource); err != nil { continue }
ContinueAfterError(i, n) == i + 1

\* client, ok := c.PricingClients[resource.Provider]: without client the
\* loop goes on with the next resource, with one GetPrice is called on
\* &resources[i].
LookupClient(p) ==
    /\ calcPc = "loop"
    /\ idx <= Len(report.Resources)
    /\ pc[p] = "idle"
    /\ IF report.Resources[idx].Provider \notin RegisteredProviders
         THEN /\ idx' = idx + 1
              /\ UNCHANGED <<calcPc, calls, pc, resource, entry>>
       ELSE /\ calcPc' = "pricing"
            /\ calls' = Append(calls, idx)
            /\ pc' = [pc EXCEPT ![p] = "check"]
            /\ resource' = [resource EXCEPT ![p] = report.Resources[idx]]
            /\ entry' = [entry EXCEPT ![p] = client]
            /\ UNCHANGED idx
    /\ UNCHANGED <<client, locals, ret, log, initCalls, report, input, outcome, calcErr, lastOp, onlyAdded, parseVars>>

\* GetPrice has returned: resources[i] is as the call left it; a failed
\* resource is passed over, a priced one is added to totals and breakdowns.
AfterGetPrice(p) ==
    /\ calcPc = "pricing"
    /\ pc[p] = "done"
    /\ LET priced == [report EXCEPT !.Resources[idx] = resource[p]]
       IN  IF ret[p] # NilErr
             THEN /\ report' = priced
                  /\ idx' = ContinueAfterError(idx, Len(report.Resources))
           ELSE /\ report' = AddPrices(priced, resource[p])
                /\ idx' = idx + 1
    /\ outcome' = [outcome EXCEPT ![idx] = ret[p]]
    /\ calcPc' = "loop"
    /\ pc' = [pc EXCEPT ![p] = "idle"]
    /\ resource' = [resource EXCEPT ![p] = NewResource("aws_instance", "", "")]
    /\ serviceCode' = [serviceCode EXCEPT ![p] = ""]
    /\ filters' = [filters EXCEPT ![p] = <<>>]
    /\ attempt' = [attempt EXCEPT ![p] = 0]
    /\ err' = [err EXCEPT ![p] = NilErr]
    /\ response' = [response EXCEPT ![p] = <<>>]
    /\ ret' = [ret EXCEPT ![p] = NilErr]
    /\ log' = [log EXCEPT ![p] = <<>>]
    /\ entry' = [entry EXCEPT ![p] = client]
    /\ UNCHANGED <<client, initCalls, input, calls, calcErr, lastOp, onlyAdded, parseVars>>

\* return report, nil
ReturnReport ==
    /\ calcPc = "loop"
    /\ idx > Len(report.Resources)
    /\ calcPc' = "returned"
    /\ calcErr' = NilErr
    /\ UNCHANGED <<client, pc, resource, locals, ret, log, entry, initCalls,
                   report, idx, input, calls, outcome, lastOp, onlyAdded, parseVars>>

\* The estimation run: CalculateCosts over the parsed resources, each GetPrice
\* call executed against the catalog.
NextCalc ==
    \/ ReturnReport
    \/ \E p \in SeqCallers :
        \/ LookupClient(p)
        \/ AfterGetPrice(p)
        \/ CheckInit(p)
        \/ InitMark(p)
        \/ InitLoadConfig(p)
        \/ InitDescribe(p)
        \/ InitFailed(p)
        \/ Classify(p)
        \/ Tier1Attempt(p, ShortPriceLists)
        \/ Sleep(p)
        \/ Tier1Done(p)
        \/ Scan(p)
        \/ Sibling(p, ShortPriceLists)
        \/ Tier2(p, ShortPriceLists)

SpecCalc == InitCalc /\ [][NextCalc]_vars

\* --------------------------------------------------------- the Report's API

\* Resources as price resolution leaves them: unpriced, or, when the AWS
\* client prices their type, priced at 2 an hour.
PricedResources ==
    Declared
    \cup {WithPrice(res, 2) : res \in {d \in Declared : ServiceCodeOf(d.ResourceType) # ""}}

\* report.AddResource(resource)
ReportAddResource ==
    /\ Len(report.Resources) < MaxResources
    /\ \E res \in PricedResources :
         /\ report.TotalHourly + Weighted(res.HourlyPrice, res.Quantity) <= MaxHourly
         /\ report' = AddResource(report, res)
    /\ lastOp' = "AddResource"
    /\ UNCHANGED onlyAdded
    /\ UNCHANGED <<client, pc, resource, locals, ret, log, entry, initCalls,
                   calcPc, idx, input, calls, outcome, calcErr, parseVars>>

\* report.AddWarning(warning)
ReportAddWarning ==
    /\ Len(report.Warnings) < MaxWarnings
    /\ report' = AddWarning(report, "check the configuration")
    /\ lastOp' = "AddWarning"
    /\ UNCHANGED onlyAdded
    /\ UNCHANGED <<client, pc, resource, locals, ret, log, entry, initCalls,
                   calcPc, idx, input, calls, outcome, calcErr, parseVars>>

\* report.Summarize()
ReportSummarize ==
    /\ report' = Summarize(report)
    /\ lastOp' = "Summarize"
    /\ onlyAdded' = FALSE
    /\ UNCHANGED <<client, pc, resource, locals, ret, log, entry, initCalls,
                   calcPc, idx, input, calls, outcome, calcErr, parseVars>>

\* Resources is an exported field: a holder of the Report removes a resource
\* from the list or changes one in it without any method of the Report.
Without(list, i) == SubSeq(list, 1, i - 1) \o SubSeq(list, i + 1, Len(list))

EditResources ==
    /\ \E i \in 1..Len(report.Resources) :
         \/ report' = [report EXCEPT !.Resources = Without(@, i)]
         \/ \E res \in PricedResources \ {report.Resources[i]} :
               report' = [report EXCEPT !.Resources[i] = res]
    /\ lastOp' = "edit"
    /\ onlyAdded' = FALSE
    /\ UNCHANGED <<client, pc, resource, locals, ret, log, entry, initCalls,
                   calcPc, idx, input, calls, outcome, calcErr, parseVars>>

NextReport ==
    \/ ReportAddResource
    \/ ReportAddWarning
    \/ ReportSummarize
    \/ EditResources

\* A Report from model.NewReport() and the calls its holder makes on it.
SpecReport == Init /\ [][NextReport]_vars

\* A Report from model.NewReport() on which only its own AddResource and
\* Summarize are called.
NextTally ==
    \/ ReportAddResource
    \/ ReportSummarize

SpecTally == Init /\ [][NextTally]_vars

\* The holder of the report that CalculateCosts returned calls AddResource
\* on it.
HolderAddResource ==
    /\ calcPc = "returned"
    /\ \E res \in PricedResources :
         IF NilMapWrite(report, res)
           THEN /\ report' = UntilTags(report, res)
                /\ calcPc' = "panic"
         ELSE /\ report' = AddResource(report, res)
              /\ calcPc' = "added"
    /\ lastOp' = "AddResource"
    /\ UNCHANGED <<client, pc, resource, locals, ret, log, entry, initCalls,
                   idx, input, calls, outcome, calcErr, onlyAdded, parseVars>>

NextHeld ==
    \/ NextCalc
    \/ HolderAddResource

\* The estimation run and one AddResource call on its report.
SpecHeld == InitCalc /\ [][NextHeld]_vars

\* ------------------------------------------------------- the analyzer's API

InitInfer ==
    /\ InitClient
    /\ NoRun
    /\ attrs \in AttrMaps
    /\ sizeRuns = <<>>
    /\ regionRuns = <<>>
    /\ quantityRuns = <<>>
    /\ parsed = <<>>
    /\ item = NewResource("aws_instance", "", "")
    /\ itemOp = ""

\* A call of FindSizeField on the block's attributes; the iteration of the
\* attributes and of the candidates takes any order.
InferSize ==
    /\ Len(sizeRuns) < MaxRuns
    /\ \E run \in SizeResults(attrs) : sizeRuns' = Append(sizeRuns, run)
    /\ UNCHANGED <<client, pc, resource, locals, ret, log, entry, initCalls, calcVars,
                   attrs, regionRuns, quantityRuns, parsed, item, itemOp>>

\* A call of FindRegionField on the block's attributes.
InferRegion ==
    /\ regionRuns = <<>>
    /\ \E region \in RegionResults(attrs) : regionRuns' = <<region>>
    /\ UNCHANGED <<client, pc, resource, locals, ret, log, entry, initCalls, calcVars,
                   attrs, sizeRuns, quantityRuns, parsed, item, itemOp>>

\* A call of FindQuantity on the block's attributes.
InferQuantity ==
    /\ quantityRuns = <<>>
    /\ quantityRuns' = <<FindQuantity(attrs)>>
    /\ UNCHANGED <<client, pc, resource, locals, ret, log, entry, initCalls, calcVars,
                   attrs, sizeRuns, regionRuns, parsed, item, itemOp>>

\* Parse makes a resource of the block and appends it to its result.
ParseBlock ==
    /\ parsed = <<>>
    /\ \E res \in ParseResults("aws_instance", attrs) : parsed' = Append(parsed, res)
    /\ UNCHANGED <<client, pc, resource, locals, ret, log, entry, initCalls, calcVars,
                   attrs, sizeRuns, regionRuns, quantityRuns, item, itemOp>>

\* A block whose only attribute is a name with a string of two segments.
InitShape ==
    /\ InitClient
    /\ NoRun
    /\ attrs \in {[n \in {"name"} |-> StringValue(s)] : s \in ShapeStrings}
    /\ sizeRuns = <<>>
    /\ regionRuns = <<>>
    /\ quantityRuns = <<>>
    /\ parsed = <<>>
    /\ item = NewResource("aws_instance", "", "")
    /\ itemOp = ""

SpecShape == InitShape /\ [][InferRegion]_vars

NextInfer ==
    \/ InferSize
    \/ InferRegion
    \/ InferQuantity
    \/ ParseBlock

SpecInfer == InitInfer /\ [][NextInfer]_vars

\* ------------------------------------------------------ the Resource's API

\* The hourly price of a resource is assigned.
SetHourlyPrice ==
    /\ \E hourly \in 0..MaxRate : item' = [item EXCEPT !.HourlyPrice = hourly]
    /\ itemOp' = "HourlyPrice"
    /\ UNCHANGED <<client, pc, resource, locals, ret, log, entry, initCalls, calcVars,
                   attrs, sizeRuns, regionRuns, quantityRuns, parsed>>

\* A call of CalculateDerivedPrices on the resource.
DerivePrices ==
    /\ item' = CalculateDerivedPrices(item)
    /\ itemOp' = "CalculateDerivedPrices"
    /\ UNCHANGED <<client, pc, resource, locals, ret, log, entry, initCalls, calcVars,
                   attrs, sizeRuns, regionRuns, quantityRuns, parsed>>

NextDerive ==
    \/ SetHourlyPrice
    \/ DerivePrices

SpecDerive == Init /\ [][NextDerive]_vars

\* ------------------------------------------------------------------- claims

Done(p) == pc[p] = "done"

ZeroPriced(res) == res.HourlyPrice = 0 /\ res.MonthlyPrice = 0 /\ res.YearlyPrice = 0

\* The adapter states of the specification's state machine.
Failed(c) == c.initialized /\ c.error # NilErr
Ready(c) == c.initialized /\ c.error = NilErr /\ c.pricingClient

IsProducts(o) == o.op = "GetProducts"
IsTier1(o) == o.op = "GetProducts" /\ o.query = "tier1"
IsTier2(o) == o.op = "GetProducts" /\ o.query = "tier2"
IsSibling(o) == o.op = "GetProducts" /\ o.query = "sibling"
IsQueryOrSleep(o) == o.op \in {"GetProducts", "Sleep"}

Supported(t) == t \in {"aws_instance", "aws_db_instance", "aws_elasticache_cluster"}

QueryLog(p) == SelectSeq(log[p], IsQueryOrSleep)
Tier1Ops(p) == SelectSeq(log[p], IsTier1)
Tier2Ops(p) == SelectSeq(log[p], IsTier2)
SiblingOps(p) == SelectSeq(log[p], IsSibling)
LastOf(q) == q[Len(q)]

\* C1: once Initialize has failed the adapter stays Failed; every later
\* GetPrice issues no network operation, leaves the three prices zero, records
\* the cached initialization error as "Error: ..." and returns an error, and
\* the call in which the initialization failed ends in the same way.
C1_FailedIsTerminal ==
    /\ client.error # NilErr => client.initialized
    /\ \A p \in SeqCallers :
         /\ (pc[p] # "idle" /\ Failed(entry[p])) =>
               /\ log[p] = <<>>
               /\ client = entry[p]
               /\ initCalls = 1
               /\ pc[p] \in {"check", "done"}
         /\ (Done(p) /\ client.error # NilErr) =>
               /\ ZeroPriced(resource[p])
               /\ resource[p].PricingDetails =
                     <<[Currency |-> "USD", PricingSource |-> "Error: " \o client.error]>>
               /\ ret[p] = "AWS pricing data unavailable: " \o client.error

\* A later call on the Failed adapter has returned.
C1_Witness ==
    \E p \in SeqCallers :
        /\ Done(p)
        /\ Failed(entry[p])
        /\ ret[p] = "AWS pricing data unavailable: " \o entry[p].error

\* C2: a GetPrice call on a Ready adapter leaves the adapter as it found it,
\* also when its catalog queries fail, so that every call that finds the
\* adapter Ready, whatever calls failed before it, issues its tier-1 query.
C2_NoReadyToFailed ==
    \A p \in SeqCallers :
        (pc[p] # "idle" /\ Ready(entry[p])) =>
            /\ client = entry[p]
            /\ (Done(p) /\ Supported(resource[p].ResourceType)) =>
                  /\ log[p] # <<>>
                  /\ IsTier1(log[p][1])
                  /\ log[p][1].n = 1

\* A call on a Ready adapter has failed on its catalog queries and the
\* adapter is Ready as before.
C2_Witness ==
    \E p \in SeqCallers :
        /\ Done(p)
        /\ Ready(entry[p])
        /\ Len(Tier1Ops(p)) > 0
        /\ ret[p] # NilErr
        /\ Ready(client)

\* C3: Initialize is entered at most once per Client, and a caller that goes
\* on to query the catalog finds the handshake's result.
C3_InitializedOnce ==
    /\ initCalls <= 1
    /\ \A p \in ConcCallers : pc[p] # "panic"


Least(S) == CHOOSE i \in S : \A j \in S : i <= j

\* The entries of a list that a scan limited to the first five looks at.
Scanned(list) == 1..(IF Len(list) < 5 THEN Len(list) ELSE 5)

\* C4: the tier-1 query is attempted at most 3 times and not again after an
\* attempt without transport error; attempt i, when it fails and is not the
\* third, is followed by a sleep of i x 500 ms and there is no other sleep;
\* after three failed attempts the call ends there, with zero prices, an
\* "Error: ..." source and an error returned.
C4_Tier1Retries ==
    \A p \in SeqCallers :
        LET q == QueryLog(p)
            k == Len(Tier1Ops(p))
        IN  (Done(p) /\ k > 0) =>
              /\ k <= 3
              /\ Len(q) >= 2 * k - 1
              /\ \A i \in 1..k : IsTier1(q[2 * i - 1]) /\ q[2 * i - 1].n = i
              /\ \A i \in 1..(k - 1) :
                    /\ ~q[2 * i - 1].ok
                    /\ q[2 * i].op = "Sleep"
                    /\ q[2 * i].n = i * 500
              /\ Cardinality({j \in 1..Len(q) : q[j].op = "Sleep"}) = k - 1
              /\ k < 3 => q[2 * k - 1].ok
              /\ ~q[2 * k - 1].ok =>
                    /\ Len(q) = 5
                    /\ ZeroPriced(resource[p])
                    /\ \E e \in ApiErrors :
                          /\ resource[p].PricingDetails =
                                <<[Currency |-> "USD", PricingSource |-> "Error: " \o e]>>
                          /\ ret[p] = "failed to get pricing data: " \o e

\* Three attempts have failed and the call has returned.
C4_Witness ==
    \E p \in SeqCallers :
        /\ Done(p)
        /\ Len(Tier1Ops(p)) = 3
        /\ ~LastOf(Tier1Ops(p)).ok
        /\ ret[p] # NilErr

\* The service class of a resource type, as the specification classifies it.
ServiceClass(t) ==
    IF t = "aws_instance" THEN "AmazonEC2"
    ELSE IF t = "aws_db_instance" THEN "AmazonRDS"
    ELSE "AmazonElastiCache"

\* The minimal filter set: the service class, and the size if it is known.
MinimalFilters(res) ==
    {[Field |-> "ServiceCode", Value |-> ServiceClass(res.ResourceType)]}
    \cup (IF res.Size = "" THEN {}
          ELSE {[Field |-> IF res.ResourceType = "aws_elasticache_cluster"
                             THEN "cacheNodeType" ELSE "instanceType",
                 Value |-> res.Size]})

\* C5: the relaxed query is issued exactly when the last tier-1 attempt
\* returned without transport error, with no entry, for more than two
\* filters; it is issued once, with the minimal filter set; when it returns
\* no entry the call fails with "no pricing data found" and zero prices.
C5_RelaxedQuery ==
    \A p \in SeqCallers :
        LET t1 == Tier1Ops(p)
            t2 == Tier2Ops(p)
        IN  Done(p) =>
              /\ Len(t2) <= 1
              /\ Len(t1) = 0 => Len(t2) = 0
              /\ Len(t1) > 0 =>
                    (Len(t2) = 1 <=>
                        /\ LastOf(t1).ok
                        /\ LastOf(t1).count = 0
                        /\ Len(LastOf(t1).filters) > 2)
              /\ Len(t2) = 1 =>
                    /\ {t2[1].filters[i] : i \in 1..Len(t2[1].filters)} = MinimalFilters(resource[p])
                    /\ Len(t2[1].filters) = Cardinality(MinimalFilters(resource[p]))
                    /\ (t2[1].ok /\ t2[1].count = 0) =>
                          /\ ZeroPriced(resource[p])
                          /\ ret[p] = "no pricing data found for resource: " \o resource[p].ID

\* The relaxed query has returned no entry and the call has failed.
C5_Witness ==
    \E p \in SeqCallers :
        /\ Done(p)
        /\ Len(Tier2Ops(p)) = 1
        /\ Tier2Ops(p)[1].ok
        /\ Tier2Ops(p)[1].count = 0
        /\ ret[p] = "no pricing data found for resource: " \o resource[p].ID

\* The tier-1 scan of caller p has acted on response[p] and no later query
\* has replaced it.
Tier1Scanned(p) ==
    /\ Len(Tier1Ops(p)) > 0
    /\ LastOf(Tier1Ops(p)).ok
    /\ LastOf(Tier1Ops(p)).count > 0
    /\ Len(Tier2Ops(p)) = 0
    /\ Len(SiblingOps(p)) = 0
    /\ pc[p] \in {"sibling", "done"}

\* C6: the tier-1 scan resolves the hourly price to an amount of the first of
\* the first five entries that yields a positive amount; when none does, to
\* an amount of the first of them that yields an amount at all.
C6_FirstPositiveWins ==
    \A p \in SeqCallers :
        Tier1Scanned(p) =>
            LET list == response[p]
                pos == {i \in Scanned(list) : \E a \in list[i] : a > 0}
                any == {i \in Scanned(list) : list[i] # {}}
            IN  IF pos # {}
                  THEN resource[p].HourlyPrice \in list[Least(pos)]
                ELSE IF any # {}
                  THEN resource[p].HourlyPrice \in list[Least(any)]
                ELSE ret[p] # NilErr

\* C7: every call that returns an error leaves the three prices zero and a
\* PricingDetails record whose source states the cause of the failure.
C7_FailureDiagnosed ==
    \A p \in SeqCallers :
        (Done(p) /\ ret[p] # NilErr) =>
            /\ ZeroPriced(resource[p])
            /\ resource[p].PricingDetails # <<>>
            /\ HasPrefix(resource[p].PricingDetails[1].PricingSource, "Error: ")

\* C8: when the tier-1 query returns entries for more than two filters and
\* none of the scanned entries yields a price, the relaxed query is issued.
C8_DataShapeFallsBack ==
    \A p \in SeqCallers :
        (/\ Done(p)
         /\ Len(Tier1Ops(p)) > 0
         /\ LastOf(Tier1Ops(p)).ok
         /\ LastOf(Tier1Ops(p)).count > 0
         /\ Len(LastOf(Tier1Ops(p)).filters) > 2
         /\ Len(Tier2Ops(p)) = 0
         /\ Len(SiblingOps(p)) = 0)
        => \E i \in Scanned(response[p]) : response[p][i] # {}

\* C8 (amended): when the tier-1 query returns entries, no relaxed query is
\* issued; if none of the first five entries yields a price the call ends
\* there, with "could not extract price from API response" and zero prices,
\* whatever the number of filters, and it ends so in no other case.
C8_DataShapeTerminal ==
    \A p \in SeqCallers :
        (/\ Done(p)
         /\ Len(Tier1Ops(p)) > 0
         /\ LastOf(Tier1Ops(p)).ok
         /\ LastOf(Tier1Ops(p)).count > 0)
        => /\ Len(Tier2Ops(p)) = 0
           /\ Len(SiblingOps(p)) = 1 => ret[p] = NilErr
           /\ Len(SiblingOps(p)) = 0 =>
                 /\ (\A i \in Scanned(response[p]) : response[p][i] = {})
                       <=> ret[p] = "could not extract price from API response"
                 /\ ret[p] # NilErr => ZeroPriced(resource[p])

\* A tier-1 answer for more than two filters had entries but no price, and
\* the call has failed without a relaxed query.
C8_Witness ==
    \E p \in SeqCallers :
        /\ Done(p)
        /\ Len(Tier1Ops(p)) > 0
        /\ LastOf(Tier1Ops(p)).count > 0
        /\ Len(LastOf(Tier1Ops(p)).filters) > 2
        /\ ret[p] = "could not extract price from API response"
        /\ Len(Tier2Ops(p)) = 0

\* C9: the t3.small lookup is issued at most once, only for a t3.micro whose
\* resolved price is zero, and then always; when it returns a positive amount
\* P (the first in its entries) the prices are P/2, 730 x P/2 and 8760 x P/2
\* and the source is the estimation label; otherwise the prices stay zero and
\* the source stays "AWS Pricing API"; the call succeeds either way.
C9_AnomalyCorrection ==
    \A p \in SeqCallers :
        LET sib == SiblingOps(p)
            res == resource[p]
        IN  /\ Len(sib) <= 1
            /\ pc[p] = "sibling" =>
                  /\ Len(sib) = 0
                  /\ res.Size = "t3.micro"
                  /\ res.HourlyPrice = 0
            /\ Len(sib) = 1 =>
                  /\ Done(p)
                  /\ res.Size = "t3.micro"
                  /\ ret[p] = NilErr
                  /\ [Field |-> "instanceType", Value |-> "t3.small"]
                        \in {sib[1].filters[i] : i \in 1..Len(sib[1].filters)}
                  /\ LET list == response[p]
                         pos == {i \in 1..Len(list) : \E a \in list[i] : a > 0}
                     IN  IF sib[1].ok /\ pos # {}
                           THEN /\ \E P \in {a \in list[Least(pos)] : a > 0} :
                                      /\ 2 * res.HourlyPrice = P
                                      /\ 2 * res.MonthlyPrice = 730 * P
                                      /\ 2 * res.YearlyPrice = 8760 * P
                                /\ res.PricingDetails[1].PricingSource =
                                      "Estimated based on t3.small pricing (50% ratio)"
                         ELSE /\ ZeroPriced(res)
                              /\ res.PricingDetails[1].PricingSource = "AWS Pricing API"
            /\ (Done(p) /\ ret[p] = NilErr /\ Len(sib) = 0 /\ Len(Tier2Ops(p)) = 0) =>
                  ~(res.Size = "t3.micro" /\ res.HourlyPrice = 0)

\* A t3.micro has been priced at half of a positive t3.small price.
C9_Witness ==
    \E p \in SeqCallers :
        /\ Done(p)
        /\ Len(SiblingOps(p)) = 1
        /\ resource[p].HourlyPrice > 0

\* C10: a call for a resource type without a known prefix issues no network
\* operation and returns "unsupported resource type", in whatever state it
\* finds the adapter.
C10_UnsupportedNoNetwork ==
    \A p \in SeqCallers :
        (Done(p) /\ ~Supported(resource[p].ResourceType)) =>
            /\ log[p] = <<>>
            /\ ret[p] = "unsupported resource type for pricing: " \o resource[p].ResourceType

\* C11: a product query that ends in a transport error has been attempted
\* three times, whichever query it is (tier 1, relaxed, t3.small lookup), and
\* the call then returns an error.
C11_EveryQueryRetried ==
    \A p \in SeqCallers :
        Done(p) =>
            \A q \in {Tier1Ops(p), Tier2Ops(p), SiblingOps(p)} :
                (Len(q) > 0 /\ ~LastOf(q).ok) =>
                    /\ Len(q) = 3
                    /\ ret[p] # NilErr

\* The positive amounts of the entries of a list.
PositiveAt(list, i) == {a \in list[i] : a > 0}

\* C12: when the relaxed query returns an entry with a positive amount, the
\* call succeeds with one of the positive amounts returned as hourly price,
\* 730 and 8760 times it as monthly and yearly price, and the source
\* "AWS Pricing API (simplified query)".
C12_AnyPositiveEntry ==
    \A p \in SeqCallers :
        LET t2 == Tier2Ops(p)
            list == response[p]
            res == resource[p]
        IN  (/\ Done(p)
             /\ Len(t2) = 1
             /\ t2[1].ok
             /\ \E i \in 1..Len(list) : PositiveAt(list, i) # {})
            => /\ ret[p] = NilErr
               /\ \E i \in 1..Len(list) : res.HourlyPrice \in PositiveAt(list, i)
               /\ res.MonthlyPrice = 730 * res.HourlyPrice
               /\ res.YearlyPrice = 8760 * res.HourlyPrice
               /\ res.PricingDetails =
                     <<[Currency |-> "USD", PricingSource |-> "AWS Pricing API (simplified query)"]>>

\* C12 (amended): when one of the first five entries of the relaxed query's
\* answer has a positive amount, the call succeeds with a positive amount P
\* of the first such entry as hourly price, 730 x P and 8760 x P as monthly
\* and yearly price and the source "AWS Pricing API (simplified query)"; when
\* the answer has entries but none of the first five has a positive amount,
\* the call fails with "no valid pricing found" and zero prices.
C12_RelaxedPrices ==
    \A p \in SeqCallers :
        LET t2 == Tier2Ops(p)
            list == response[p]
            res == resource[p]
            pos == {i \in Scanned(list) : PositiveAt(list, i) # {}}
        IN  (Done(p) /\ Len(t2) = 1 /\ t2[1].ok /\ t2[1].count > 0) =>
              IF pos # {}
                THEN /\ ret[p] = NilErr
                     /\ \E P \in PositiveAt(list, Least(pos)) :
                           /\ res.HourlyPrice = P
                           /\ res.MonthlyPrice = 730 * P
                           /\ res.YearlyPrice = 8760 * P
                     /\ res.PricingDetails =
                           <<[Currency |-> "USD",
                              PricingSource |-> "AWS Pricing API (simplified query)"]>>
              ELSE /\ ret[p] = "no valid pricing found for resource: " \o res.ID
                   /\ ZeroPriced(res)

\* Tier 1 returned no entry and the relaxed query priced the resource, from
\* an entry that follows one with a zero amount.
C12_Witness ==
    \E p \in SeqCallers :
        /\ Done(p)
        /\ Len(Tier1Ops(p)) > 0
        /\ LastOf(Tier1Ops(p)).count = 0
        /\ Len(Tier2Ops(p)) = 1
        /\ response[p] = <<{0}, {2}>>
        /\ resource[p].HourlyPrice = 2
        /\ resource[p].MonthlyPrice = 1460
        /\ ret[p] = NilErr

\* C13: whenever GetPrice has returned, the monthly price is 730 times and
\* the yearly price 8760 times the hourly price stored, and the three are
\* zero when the call returned an error.
C13_PricesConsistent ==
    \A p \in SeqCallers :
        Done(p) =>
            /\ resource[p].MonthlyPrice = resource[p].HourlyPrice * 730
            /\ resource[p].YearlyPrice = resource[p].HourlyPrice * 8760
            /\ ret[p] # NilErr => ZeroPriced(resource[p])

\* A call has returned a resource priced at 4 an hour.
C13_Witness ==
    \E p \in SeqCallers :
        /\ Done(p)
        /\ ret[p] = NilErr
        /\ resource[p].HourlyPrice = 4
        /\ resource[p].MonthlyPrice = 2920
        /\ resource[p].YearlyPrice = 35040

\* ------------------------------------------------- claims on the aggregation

\* CalculateCosts has returned.
Returned == calcPc = "returned"

\* The indexes of a run whose GetPrice call returned an error, those whose
\* call succeeded, and those for which no pricing client is registered.
FailedAt == {i \in 1..Len(input) : outcome[i] \notin {"", NilErr}}
PricedAt == {i \in 1..Len(input) : outcome[i] = NilErr}
NoAdapterAt == {i \in 1..Len(input) : input[i].Provider # "aws"}

RECURSIVE SumSeq(_)
SumSeq(q) == IF q = <<>> THEN 0 ELSE Head(q) + SumSeq(Tail(q))

\* The sum of price x quantity over a list, and the part of it that the
\* resources with value k in a field have.
WeightedTotal(list, price) ==
    SumSeq([i \in 1..Len(list) |-> list[i][price] * list[i].Quantity])
WeightedShare(list, field, k) ==
    SumSeq([i \in 1..Len(list) |->
              IF list[i][field] = k THEN list[i].MonthlyPrice * list[i].Quantity ELSE 0])
WeightedBreakdown(list, field) ==
    [k \in {list[i][field] : i \in 1..Len(list)} |-> WeightedShare(list, field, k)]

\* The sum of a price over the resources of a list at the indexes S.
PriceSum(list, price, S) ==
    SumSeq([i \in 1..Len(list) |-> IF i \in S THEN list[i][price] ELSE 0])

\* C14: the report CalculateCosts returns is quantity-weighted: each total is
\* the sum of price x quantity over its resources, as Summarize computes it,
\* and each provider, type and region it lists has the sum of monthly price
\* x quantity of its resources.
C14_QuantityWeighted ==
    Returned =>
        LET list == report.Resources
        IN  /\ report.TotalHourly = WeightedTotal(list, "HourlyPrice")
            /\ report.TotalMonthly = WeightedTotal(list, "MonthlyPrice")
            /\ report.TotalYearly = WeightedTotal(list, "YearlyPrice")
            /\ report.TotalMonthly = Summarize(report).TotalMonthly
            /\ \A k \in DOMAIN report.ByProvider :
                  report.ByProvider[k] = WeightedShare(list, "Provider", k)
            /\ \A k \in DOMAIN report.ByResourceType :
                  report.ByResourceType[k] = WeightedShare(list, "ResourceType", k)
            /\ \A k \in DOMAIN report.ByRegion :
                  report.ByRegion[k] = WeightedShare(list, "Region", k)

\* C15: a resource without pricing client, or whose GetPrice call failed, is
\* in the returned report's list and its provider, type and region are keys
\* of the three breakdowns; the run neither panics nor returns an error.
C15_UnpricedInBreakdowns ==
    /\ \A p \in SeqCallers : pc[p] # "panic"
    /\ Returned =>
          /\ calcErr = NilErr
          /\ Len(report.Resources) = Len(input)
          /\ \A i \in FailedAt \cup NoAdapterAt :
                /\ report.Resources[i].ID = input[i].ID
                /\ report.Resources[i].Provider \in DOMAIN report.ByProvider
                /\ report.Resources[i].ResourceType \in DOMAIN report.ByResourceType
                /\ report.Resources[i].Region \in DOMAIN report.ByRegion

\* C16: CalculateCosts returns its report and no error whatever calls failed;
\* GetPrice has been called once for every resource of provider "aws", in
\* list order, and for no other; a resource whose call succeeded has the
\* prices the call gave it, and the totals are the sums of the prices of
\* these resources, each counted once.
C16_FailuresIsolated ==
    /\ \A p \in SeqCallers : pc[p] # "panic"
    /\ Returned =>
          /\ calcErr = NilErr
          /\ Len(report.Resources) = Len(input)
          /\ \A j \in 1..(Len(calls) - 1) : calls[j] < calls[j + 1]
          /\ {calls[j] : j \in 1..Len(calls)} = {i \in 1..Len(input) : input[i].Provider = "aws"}
          /\ \A i \in 1..Len(input) : i \in FailedAt \cup PricedAt <=> input[i].Provider = "aws"
          /\ \A i \in PricedAt :
                /\ report.Resources[i].MonthlyPrice = 730 * report.Resources[i].HourlyPrice
                /\ report.Resources[i].PricingDetails # Nil
          /\ report.TotalHourly = PriceSum(report.Resources, "HourlyPrice", PricedAt)
          /\ report.TotalMonthly = PriceSum(report.Resources, "MonthlyPrice", PricedAt)
          /\ report.TotalYearly = PriceSum(report.Resources, "YearlyPrice", PricedAt)

\* The first resource of a run could not be priced and a later one is priced.
C16_Witness ==
    /\ Returned
    /\ 1 \in FailedAt
    /\ \E i \in PricedAt : i > 1 /\ report.Resources[i].HourlyPrice > 0
    /\ report.TotalHourly > 0

\* C17: for every resource whose GetPrice call returned an error the returned
\* report carries a diagnostic in its warnings or errors.
C17_FailuresRecorded ==
    Returned =>
        Len(report.Warnings) + Len(report.Errors) >= Cardinality(FailedAt)

\* C18: a resource of provider "aws" whose type the client does not price has
\* zero prices in the returned report, the report lists as many resources as
\* the run was given, and the totals are the sums over the other resources.
C18_UnsupportedCounted ==
    Returned =>
        LET unsupported == {i \in 1..Len(input) :
                              input[i].Provider = "aws" /\ ~Supported(input[i].ResourceType)}
        IN  /\ Len(report.Resources) = Len(input)
            /\ \A i \in unsupported :
                  /\ report.Resources[i].ID = input[i].ID
                  /\ ZeroPriced(report.Resources[i])
                  /\ i \in FailedAt
            /\ report.TotalHourly =
                  PriceSum(report.Resources, "HourlyPrice", PricedAt \ unsupported)
            /\ report.TotalMonthly =
                  PriceSum(report.Resources, "MonthlyPrice", PricedAt \ unsupported)
            /\ report.TotalYearly =
                  PriceSum(report.Resources, "YearlyPrice", PricedAt \ unsupported)

\* A run with a resource of an unsupported type and a priced resource.
C18_Witness ==
    /\ Returned
    /\ \E i \in 1..Len(input) : input[i].ResourceType = "aws_s3_bucket"
    /\ \E i \in 1..Len(input) : report.Resources[i].HourlyPrice = 2
    /\ report.TotalMonthly = 1460

\* C19: for a resource without pricing client GetPrice is not called, its
\* prices stay zero, and its PricingDetails are set.
C19_NoAdapterExplicit ==
    Returned =>
        \A i \in NoAdapterAt :
            /\ i \notin {calls[j] : j \in 1..Len(calls)}
            /\ ZeroPriced(report.Resources[i])
            /\ report.Resources[i].PricingDetails # Nil

\* The tag keys of a list, and the values a key has in it.
TagKeys(list) == UNION {DOMAIN list[i].Tags : i \in 1..Len(list)}
TagValues(list, key) ==
    {list[i].Tags[key] : i \in {j \in 1..Len(list) : key \in DOMAIN list[j].Tags}}
TagShare(list, key, value) ==
    SumSeq([i \in 1..Len(list) |->
              IF key \in DOMAIN list[i].Tags /\ list[i].Tags[key] = value
                THEN list[i].MonthlyPrice * list[i].Quantity ELSE 0])

\* C20: after Summarize the totals and the breakdowns are those of the
\* current resource list alone, whatever they were before, and Summarize
\* called once more leaves the report as it is.
C20_SummarizeRecomputes ==
    lastOp = "Summarize" =>
        LET list == report.Resources
        IN  /\ report.TotalHourly = WeightedTotal(list, "HourlyPrice")
            /\ report.TotalMonthly = WeightedTotal(list, "MonthlyPrice")
            /\ report.TotalYearly = WeightedTotal(list, "YearlyPrice")
            /\ report.ByProvider = WeightedBreakdown(list, "Provider")
            /\ report.ByResourceType = WeightedBreakdown(list, "ResourceType")
            /\ report.ByRegion = WeightedBreakdown(list, "Region")
            /\ report.ByTag =
                  [key \in TagKeys(list) |->
                     [value \in TagValues(list, key) |-> TagShare(list, key, value)]]
            /\ Summarize(report) = report

\* Summarize has recomputed a report that lists one instance with count 2
\* and a tag, priced at 2 an hour.
C20_Witness ==
    /\ lastOp = "Summarize"
    /\ Len(report.Resources) = 1
    /\ report.Resources[1].Quantity = 2
    /\ report.TotalHourly = 4
    /\ report.TotalMonthly = 2920
    /\ DOMAIN report.ByTag = {"env"}

\* The totals and the four breakdowns of two reports are the same.
SameSums(a, b) ==
    /\ a.TotalHourly = b.TotalHourly
    /\ a.TotalMonthly = b.TotalMonthly
    /\ a.TotalYearly = b.TotalYearly
    /\ a.ByProvider = b.ByProvider
    /\ a.ByResourceType = b.ByResourceType
    /\ a.ByRegion = b.ByRegion
    /\ a.ByTag = b.ByTag

\* The orders of a list.
Reordered(list) ==
    {[i \in 1..Len(list) |-> list[f[i]]] : f \in Permutations(1..Len(list))}

\* AddResource called on a report for each resource of a list in turn.
RECURSIVE AddAll(_, _)
AddAll(r, list) == IF list = <<>> THEN r ELSE AddAll(AddResource(r, Head(list)), Tail(list))

Entry(m, k) == IF k \in DOMAIN m THEN m[k] ELSE 0

\* A breakdown after the step has the keys it had and key k, the entry of k
\* increased by v and the others as they were.
Increased(before, after, k, v) ==
    /\ DOMAIN after = DOMAIN before \cup {k}
    /\ \A x \in DOMAIN after : after[x] = Entry(before, x) + (IF x = k THEN v ELSE 0)

\* The tag breakdown after the step has, for every tag of the resource, the
\* entry of the tag's key and value increased by v, and the others as they were.
TagsIncreased(before, after, tags, v) ==
    /\ DOMAIN after = DOMAIN before \cup DOMAIN tags
    /\ \A key \in DOMAIN after :
          IF key \in DOMAIN tags
            THEN Increased(IF key \in DOMAIN before THEN before[key] ELSE << >>,
                           after[key], tags[key], v)
            ELSE after[key] = before[key]

\* What a call of AddResource does to the list, the totals, the breakdowns
\* by provider, type and region, and the warnings and errors.
AddResourceStep ==
    LET res == report'.Resources[Len(report'.Resources)]
        share == res.MonthlyPrice * res.Quantity
    IN  /\ report'.Resources = Append(report.Resources, res)
        /\ report'.TotalHourly = report.TotalHourly + res.HourlyPrice * res.Quantity
        /\ report'.TotalMonthly = report.TotalMonthly + res.MonthlyPrice * res.Quantity
        /\ report'.TotalYearly = report.TotalYearly + res.YearlyPrice * res.Quantity
        /\ Increased(report.ByProvider, report'.ByProvider, res.Provider, share)
        /\ Increased(report.ByResourceType, report'.ByResourceType, res.ResourceType, share)
        /\ Increased(report.ByRegion, report'.ByRegion, res.Region, share)
        /\ report'.Warnings = report.Warnings
        /\ report'.Errors = report.Errors

\* C22 as stated: a call of AddResource appends its resource to the list, adds
\* price x quantity to each total and monthly price x quantity to the entries
\* of the resource's provider, type and region, and leaves every other
\* breakdown entry, the tag breakdown included, as it was.
C22_OnlyThreeBreakdowns ==
    [][lastOp' = "AddResource" =>
         AddResourceStep /\ report'.ByTag = report.ByTag]_vars

\* C22, amended: a call of AddResource appends its resource to the list, adds
\* price x quantity to each total and monthly price x quantity to the entries
\* of the resource's provider, type and region and to the tag-breakdown entry
\* of each of its tags, and leaves the other entries, the earlier resources
\* and the warnings as they were.
C22_AddResourceEffect ==
    [][lastOp' = "AddResource" =>
         /\ AddResourceStep
         /\ LET res == report'.Resources[Len(report'.Resources)]
            IN  TagsIncreased(report.ByTag, report'.ByTag, res.Tags,
                              res.MonthlyPrice * res.Quantity)]_vars

\* AddResource has added an instance with count 2 to a report that had an
\* entry for its provider and none for its region.
C22_Witness ==
    /\ lastOp = "AddResource"
    /\ Len(report.Resources) = 2
    /\ report.Resources[2].Quantity = 2
    /\ report.Resources[2].MonthlyPrice = 1460
    /\ report.ByProvider["aws"] > 2920
    /\ report.ByRegion[""] = 2920
    /\ report.ByTag["env"]["prod"] = 2920

\* ---------------------------------------------------- claims on the analyzer

\* The block declares attribute n with a string that is not empty.
Declares(n) == n \in DOMAIN attrs /\ attrs[n].kind = "string" /\ attrs[n].str # ""

\* C23: when the block has an attribute named instance_type with a string V
\* that is not empty, every call of FindSizeField returns V, whatever other
\* attributes the block has.
C23_InstanceTypeWins ==
    \A i \in 1..Len(sizeRuns) :
        Declares("instance_type") => sizeRuns[i].value = attrs["instance_type"].str

\* C24: two calls of FindSizeField on the same attributes return the same
\* value, whatever order the iteration of the maps takes in each.
C24_SizeDeterministic ==
    \A i, j \in 1..Len(sizeRuns) : sizeRuns[i].value = sizeRuns[j].value

\* The priorities of the sightings of a value: one for each pattern of the
\* first pass that an attribute with the value matches, and 75 or 30 for each
\* attribute whose value has the shape of an instance type.
Sightings(val) ==
    {sizePatterns[i].priority :
        i \in {k \in 1..Len(sizePatterns) :
                  \E n \in PatternNames[k] : Declares(n) /\ attrs[n].str = val}}
    \cup {75 : n \in {m \in BoostedNames :
                         Declares(m) /\ attrs[m].str = val /\ val \in InstanceTypeLike}}
    \cup {30 : n \in {m \in AttrNames \ BoostedNames :
                         Declares(m) /\ attrs[m].str = val /\ val \in InstanceTypeLike}}

\* C25: the priority FindSizeField holds for a candidate value when it picks
\* the best one is the highest priority of the value's sightings.
C25_HighestSightingKept ==
    \A i \in 1..Len(sizeRuns) :
        \A val \in DOMAIN sizeRuns[i].candidates :
            \A priority \in Sightings(val) : sizeRuns[i].candidates[val] >= priority

\* C26: every resource Parse returns has a quantity of at least 1: 1 when the
\* count is absent, not a number, zero, negative or below 1, and the count
\* truncated to an integer when it is 1 or more.
C26_QuantityAtLeastOne ==
    \A i \in 1..Len(parsed) :
        /\ parsed[i].Quantity >= 1
        /\ IF "count" \in DOMAIN attrs /\ attrs["count"].kind = "number"
                /\ attrs["count"].num >= 2
             THEN parsed[i].Quantity = attrs["count"].num \div 2
           ELSE parsed[i].Quantity = 1

\* Parse has returned the resource of a block that declares count = 0.5.
C26_Witness ==
    /\ Len(parsed) = 1
    /\ "count" \in DOMAIN attrs
    /\ attrs["count"] = NumberValue(1)
    /\ parsed[1].Quantity = 1

\* The strings, not empty, of the attributes with a name of a set.
StringsOf(names) == {attrs[n].str : n \in {m \in DOMAIN attrs \cap names : Declares(m)}}

\* C27: FindRegionField returns the string of the first of region, location,
\* zone and availability_zone that the block declares; if there is none, the
\* string of an attribute whose name contains region, location or zone; if
\* there is none, a string that has the shape of a region; and the empty
\* string only if there is none of these.
C27_RegionPhases ==
    \A i \in 1..Len(regionRuns) :
        IF Declares("region") THEN regionRuns[i] = attrs["region"].str
        ELSE IF Declares("location") THEN regionRuns[i] = attrs["location"].str
        ELSE IF Declares("zone") THEN regionRuns[i] = attrs["zone"].str
        ELSE IF Declares("availability_zone")
          THEN regionRuns[i] = attrs["availability_zone"].str
        ELSE IF StringsOf(KeywordNames) # {} THEN regionRuns[i] \in StringsOf(KeywordNames)
        ELSE IF StringsOf(AttrNames) \cap RegionLike # {}
          THEN regionRuns[i] \in StringsOf(AttrNames) \cap RegionLike
        ELSE regionRuns[i] = ""

\* FindRegionField has been called on a block that declares a region and an
\* availability zone, and has returned the region.
C27_Witness ==
    /\ Len(regionRuns) = 1
    /\ Declares("region")
    /\ Declares("availability_zone")
    /\ attrs["region"].str # attrs["availability_zone"].str
    /\ regionRuns[1] = attrs["region"].str

\* No attribute of the block has a name that hints at a region.
NoNameHint ==
    \A n \in DOMAIN attrs :
        /\ ~Contains(n, "region")
        /\ ~Contains(n, "location")
        /\ ~Contains(n, "zone")

\* C28: on a block without a name that hints at a region, FindRegionField
\* returns "us-east-1" when that is the block's string, "eastus" when that is
\* the block's string, and the empty string when the block's string is
\* "my-app-server".
C28_RegionShapes ==
    \A i \in 1..Len(regionRuns) :
        NoNameHint =>
            /\ StringsOf(AttrNames) = {"us-east-1"} => regionRuns[i] = "us-east-1"
            /\ StringsOf(AttrNames) = {"eastus"} => regionRuns[i] = "eastus"
            /\ StringsOf(AttrNames) = {"my-app-server"} => regionRuns[i] = ""

\* FindRegionField has been called on a block whose only string is
\* "my-app-server", under a name without a hint.
C28_Witness ==
    /\ Len(regionRuns) = 1
    /\ NoNameHint
    /\ StringsOf(AttrNames) = {"my-app-server"}
    /\ regionRuns[1] = ""

\* The block has no candidate field: no string under a name that a size
\* pattern or a region keyword matches, no string with the shape of an
\* instance type or of a region, and no positive count.
NoCandidates ==
    /\ \A n \in DOMAIN attrs :
          Declares(n) =>
              /\ \A k \in 1..Len(sizePatterns) : ~HasSuffix(n, sizePatterns[k].suffix)
              /\ ~looksLikeInstanceType(attrs[n].str)
              /\ n \notin {"region", "location", "zone", "availability_zone"}
              /\ ~Contains(n, "region") /\ ~Contains(n, "location") /\ ~Contains(n, "zone")
              /\ ~looksLikeRegion(attrs[n].str)
    /\ ~("count" \in DOMAIN attrs /\ attrs["count"].kind = "number" /\ attrs["count"].num > 0)

\* C29: on a block without candidate fields FindSizeField and
\* FindRegionField return the empty string and FindQuantity returns 1.
C29_DefaultsWithoutCandidates ==
    NoCandidates =>
        /\ \A i \in 1..Len(sizeRuns) : sizeRuns[i].value = ""
        /\ \A i \in 1..Len(regionRuns) : regionRuns[i] = ""
        /\ \A i \in 1..Len(quantityRuns) : quantityRuns[i] = 1

\* The three functions have been called on a block that declares a name
\* without any shape and count = 0.
C29_Witness ==
    /\ NoCandidates
    /\ Declares("name")
    /\ "count" \in DOMAIN attrs
    /\ attrs["count"] = NumberValue(0)
    /\ Len(sizeRuns) > 0
    /\ Len(regionRuns) > 0
    /\ Len(quantityRuns) > 0

\* ---------------------------------------------------- claims on the Resource

\* C30: after CalculateDerivedPrices the monthly price is 730 times and the
\* yearly price 8760 times the hourly price, for every hourly price, zero
\* included.
C30_DerivedFromHourly ==
    itemOp = "CalculateDerivedPrices" =>
        /\ item.MonthlyPrice = item.HourlyPrice * 730
        /\ item.YearlyPrice = item.HourlyPrice * 8760

\* ------------------------------------------- claims on timeouts and queries

\* C31: every GetPrice call returns in the end, also when the catalog gives no
\* answer to a query.
C31_AlwaysReturns ==
    \A p \in SeqCallers : (pc[p] = "check") ~> (pc[p] = "done")

\* C32: when the relaxed query returns entries, the call ends as the tier-1
\* scan of the same entries would end it: with the price that scan resolves,
\* or with a failure when that scan finds none.
C32_SameScan ==
    \A p \in SeqCallers :
        LET t2 == Tier2Ops(p)
        IN  (Done(p) /\ Len(t2) = 1 /\ t2[1].ok /\ t2[1].count > 0) =>
                \E r \in Tier1Scan(response[p]) :
                    IF r.found
                      THEN ret[p] = NilErr /\ resource[p].HourlyPrice = r.price
                    ELSE ret[p] # NilErr

\* The filters the tier-1 query of a resource is to carry: the service class,
\* the region and the size if known, and the mandatory dimensions of the class.
ExactFilters(res) ==
    {[Field |-> "ServiceCode", Value |-> ServiceClass(res.ResourceType)]}
    \cup (IF res.Region # "" THEN {[Field |-> "regionCode", Value |-> res.Region]} ELSE {})
    \cup (IF res.Size # ""
            THEN {[Field |-> IF ServiceClass(res.ResourceType) = "AmazonElastiCache"
                               THEN "cacheNodeType" ELSE "instanceType",
                   Value |-> res.Size]}
          ELSE {})
    \cup (IF ServiceClass(res.ResourceType) = "AmazonEC2"
            THEN {[Field |-> "operatingSystem", Value |-> "Linux"],
                  [Field |-> "tenancy", Value |-> "Shared"]}
          ELSE IF ServiceClass(res.ResourceType) = "AmazonRDS"
            THEN {[Field |-> "databaseEngine", Value |-> "MySQL"]}
          ELSE {})

\* C33: every tier-1 query carries the service class, a region filter only if
\* the resource's region is known, a size filter only if its size is known,
\* and the mandatory dimensions of its class.
C33_ExactFilters ==
    \A p \in SeqCallers :
        \A i \in 1..Len(Tier1Ops(p)) :
            {Tier1Ops(p)[i].filters[k] : k \in 1..Len(Tier1Ops(p)[i].filters)}
                = ExactFilters(resource[p])

\* ------------------------------------------------ claims on the value shapes

\* C34: a string of two segments with a hyphen between them that ends in a
\* digit, whichever, and whose first segment has 2 or more than 4
\* characters, is taken for a region: FindRegionField returns it when it is
\* the block's only string.
C34_AnyFinalDigit ==
    \A i \in 1..Len(regionRuns) :
        \A s \in StringsOf({"name"}) :
            LET segments == Split(s, "-")
            IN  (/\ DOMAIN attrs = {"name"}
                 /\ Len(segments) = 2
                 /\ SubSeq(s, Len(s), Len(s)) \in {"0", "1", "2", "3", "4", "5", "6", "7", "8", "9"}
                 /\ Len(segments[1]) = 2 \/ Len(segments[1]) > 4)
                => regionRuns[i] = s

\* C35: a string with hyphens that has none of the shapes of a size is no
\* candidate: on a block whose only string is "my-app-server" FindSizeField
\* returns the empty string.
C35_HyphensAreNoSize ==
    \A i \in 1..Len(sizeRuns) :
        StringsOf(AttrNames) = {"my-app-server"} =>
            /\ "my-app-server" \notin DOMAIN sizeRuns[i].candidates
            /\ sizeRuns[i].value = ""

\* The product queries of a call, in the order it issued them.
ProductOps(p) == SelectSeq(log[p], IsProducts)

\* A call has issued at most three tier-1 queries and, after them, at most
\* one more: the relaxed query after a tier-1 answer without entries, or the
\* t3.small lookup after a tier-1 answer with entries.
QueriesBounded(p) ==
    LET t1 == Tier1Ops(p)
        t2 == Tier2Ops(p)
        sib == SiblingOps(p)
    IN  /\ Len(t1) <= 3
        /\ Len(t2) + Len(sib) <= 1
        /\ Len(ProductOps(p)) <= 4
        /\ \A i \in 1..Len(t1) : IsTier1(ProductOps(p)[i])
        /\ Len(t2) = 1 => Len(t1) > 0 /\ LastOf(t1).ok /\ LastOf(t1).count = 0
        /\ Len(sib) = 1 => Len(t1) > 0 /\ LastOf(t1).ok /\ LastOf(t1).count > 0

\* C36: a GetPrice call issues at most 4 product queries, at most 3 tier-1
\* attempts and then the relaxed query or the t3.small lookup, never both;
\* when every query is answered, every call returns.
C36_AtMostFourQueries ==
    /\ [](\A p \in SeqCallers : QueriesBounded(p))
    /\ \A p \in SeqCallers : (pc[p] = "check") ~> (pc[p] = "done")

\* A call on a Ready adapter has returned after three tier-1 attempts and
\* the relaxed query.
C36_Witness ==
    \E p \in SeqCallers :
        /\ Done(p)
        /\ Ready(entry[p])
        /\ Len(Tier1Ops(p)) = 3
        /\ Len(Tier2Ops(p)) = 1
        /\ Len(ProductOps(p)) = 4

\* ------------------------------------------------------ claims on the callers

\* The handshake of the adapter is under way in a caller.
InHandshake(q) == pc[q] \in {"init_config", "init_describe"}

\* The caller has found the adapter initialized and without error and is at
\* its queries.
AtQueries(p) ==
    pc[p] \in {"classify", "tier1", "sleep", "tier1_done", "scan", "sibling", "tier2", "panic"}

\* C37: a caller is at its queries only when the handshake has completed:
\* the catalog handle is set, no caller is still in the handshake, and no
\* query is made through a handle that is not set.
C37_QueriesAfterHandshake ==
    \A p \in ConcCallers :
        AtQueries(p) =>
            /\ client.pricingClient
            /\ \A q \in ConcCallers : ~InHandshake(q)
            /\ pc[p] # "panic"

\* ----------------------------------------------------- claims on the tallies

\* The sum of the values of a breakdown.
RECURSIVE SumValues(_)
SumValues(m) ==
    IF DOMAIN m = {} THEN 0
    ELSE LET k == CHOOSE x \in DOMAIN m : TRUE
         IN  m[k] + SumValues([x \in DOMAIN m \ {k} |-> m[x]])

C39_TaggedAddSucceeds ==
    /\ calcPc = "returned" => ~report.ByTagNil
    /\ calcPc # "panic"
    /\ calcPc = "added" =>
          LET res == LastOf(report.Resources)
          IN  \A k \in DOMAIN res.Tags :
                  /\ k \in DOMAIN report.ByTag
                  /\ res.Tags[k] \in DOMAIN report.ByTag[k]

====
